---------------------------- MODULE Spec2Model ----------------------------
(***************************************************************************)
(* A model of the QuickBuy pitch-deck generator.                           *)
(*                                                                         *)
(*  - PitchDeckBuilder (the pptx templates): build() and the slide         *)
(*    constructors it calls, with the formatting helpers of the FMP client.*)
(*  - fetchAllCompanyData (the FMP client): getCachedOrFetch, fmpRequest,  *)
(*    safeFetch, the profile stage, wave one and the peer enrichment.      *)
(*  - The two company-data API handlers, one of them with the Yahoo        *)
(*    Finance fallback.                                                    *)
(*  - The chart helpers: calculateRevenueGrowth, processPriceData,         *)
(*    calculateMarketShare and the market-share decisions of the page.     *)
(*  - getCachedOrFetch and clearCache with the entries' timestamps, under  *)
(*    concurrent calls.                                                    *)
(*  - The page: Home's handlers and the ChartRenderer's timer, export and  *)
(*    callbacks, under every interleaving.                                 *)
(*                                                                         *)
(* Units.  Money is a natural number of millions of dollars, a ratio is a  *)
(* natural number of thousandths (250 is 0.25), earnings per share is a    *)
(* natural number of cents, a fiscal year is a natural number.  An         *)
(* optional field is a sequence: <<>> when the field is null or undefined, *)
(* <<v>> when it holds v.  A free text is the sequence of its lines, so    *)
(* the empty string is <<"">>.                                             *)
(***************************************************************************)
EXTENDS Integers, Sequences, FiniteSets, TLC

VARIABLES
    \* ---- PitchDeckBuilder ----
    companyData,    \* this.companyData
    formData,       \* this.formData
    charts,         \* this.charts: the ChartExportResult array
    throwsAt,       \* the step of build() whose library call throws ("none": no step)
    pc,             \* position of build(): "slides", "charts", "write", "done", "failed"
    slideIdx,       \* index of the for loop over the fixed slides
    chartIdx,       \* index of the chart lookup inside the chart try block
    deck,           \* the slides added to this.pptx so far
    buildError,     \* the Error build() rejected with (<<>>: none)
    blob,           \* the Blob build() resolved with (<<>>: none)
    \* ---- fetchAllCompanyData ----
    apiKeySet,      \* process.env.FMP_API_KEY is set
    cache,          \* the module's cache Map: per key, <<>> or <<the fresh entry's data>>
    fpc,            \* position of fetchAllCompanyData
    profile,        \* the profile the first stage resolved to (<<>>: none yet or null)
    wave,           \* wave one: the state of each of the eight safeFetch calls
    waveAnswer,     \* wave one: what the provider answered each request ("": nothing yet)
    peerList,       \* the peers array wave one resolved to
    peerState,      \* wave two: the state of each peer's profile+ratios lookup
    requests,       \* the provider requests issued so far, in order
    fetchResult,    \* the CompanyData fetchAllCompanyData resolved with (<<>>: none)
    fetchError,     \* the error code fetchAllCompanyData rejected with ("": none)
    \* ---- the company-data API handlers ----
    handlerKind,    \* which handler serves the request: "fallback" or "fmp-only"
    reqMethod,      \* req.method
    reqSymbol,      \* req.query.symbol (<<>>: missing)
    hpc,            \* position of the handler
    yahooQuote,     \* what yahooFinance.quote answered ("": not called)
    yahooCalls,     \* the yahoo-finance2 calls made so far, in order
    response,       \* the response sent (<<>>: none yet)
    \* ---- the chart helpers ----
    helper,         \* the helper being called ("": none)
    helperArgs,     \* the arguments of the call
    helperResult,   \* what the call returned (<<>>: not returned yet)
    \* ---- getCachedOrFetch ----
    cacheEntries,   \* the module's cache Map with timestamps: per key, <<>> or <<entry>>
    clock,          \* Date.now(), in ticks
    calls,          \* the calls of getCachedOrFetch: position, what each saw and got
    clears,         \* the calls of clearCache so far
    \* ---- the page: Home and its ChartRenderer ----
    appState,       \* 'form', 'loading', 'preview' or 'error'
    progressStep,   \* the ProgressStep
    homeFormData,   \* Home's formData: <<>> (null) or <<the run it was submitted in>>
    homeCompanyData,\* Home's companyData: <<>> (null) or <<the run it was fetched in>>
    homeCharts,     \* Home's charts: the exported charts, each with its configuration's run
    configs,        \* priceConfig, revenueConfig, marketShareConfig: per chart, <<>> or <<run>>
    runInputs,      \* per run, the toggles submitted and the charts the data allows
    submitted,      \* the submissions so far
    fetchOf,        \* per run, where its handleFormSubmit stands
    renderer,       \* the mounted ChartRenderer (<<>>: none)
    exports,        \* the mounts whose exportCharts waits its 500 ms
    mounts,         \* the ChartRenderer instances mounted so far
    readyCalls,     \* per instance, the calls of onChartsReady it made
    throws          \* the exports that threw so far

buildVars == <<companyData, formData, charts, throwsAt, pc, slideIdx, chartIdx,
               deck, buildError, blob>>
fetchVars == <<apiKeySet, cache, fpc, profile, wave, waveAnswer, peerList, peerState,
               requests, fetchResult, fetchError>>
handlerVars == <<handlerKind, reqMethod, reqSymbol, hpc, yahooQuote, yahooCalls, response>>
chartVars == <<helper, helperArgs, helperResult>>
cacheVars == <<cacheEntries, clock, calls, clears>>
pageVars == <<appState, progressStep, homeFormData, homeCompanyData, homeCharts, configs,
              runInputs, submitted, fetchOf, renderer, exports, mounts, readyCalls,
              throws>>
vars == <<buildVars, fetchVars, handlerVars, chartVars, cacheVars, pageVars>>

\* No chart helper is being called.
ChartsIdle ==
    /\ helper = ""
    /\ helperArgs = <<>>
    /\ helperResult = <<>>

\* The page is not open.
PageIdle ==
    /\ appState = "form"
    /\ progressStep = "idle"
    /\ homeFormData = <<>>
    /\ homeCompanyData = <<>>
    /\ homeCharts = <<>>
    /\ configs = <<>>
    /\ runInputs = <<>>
    /\ submitted = 0
    /\ fetchOf = <<>>
    /\ renderer = <<>>
    /\ exports = {}
    /\ mounts = 0
    /\ readyCalls = <<>>
    /\ throws = 0

\* getCachedOrFetch is not being exercised: no call, and no clock.
CacheIdle ==
    /\ cacheEntries = <<>>
    /\ clock = 0
    /\ calls = <<>>
    /\ clears = 0

----------------------------------------------------------------------------
(* Helpers                                                                 *)

Absent == <<>>
Some(v) == <<v>>
IsAbsent(o) == o = <<>>
\* JavaScript's `x || 0` and `x ?? 0` on an optional number.
OrZero(o) == IF o = <<>> THEN 0 ELSE o[1]
\* JavaScript truthiness of an optional number: null, undefined and 0 are falsy.
Truthy(o) == o # <<>> /\ o[1] # 0

Range(s) == {s[i] : i \in 1..Len(s)}

RECURSIVE SeqsOver(_, _)
\* The sequences over S of length at most n.
SeqsOver(S, n) ==
    IF n = 0 THEN {<<>>}
    ELSE LET shorter == SeqsOver(S, n - 1)
         IN  shorter \cup {Append(s, x) : s \in {t \in shorter : Len(t) = n - 1},
                                          x \in S}


----------------------------------------------------------------------------
(* Formatting: safeText of the templates, formatLargeNumber,               *)
(* formatPercentage and Number.prototype.toFixed as the code uses them.    *)

TwoDigits(n) == IF n < 10 THEN "0" \o ToString(n) ELSE ToString(n)

\* (v / d).toFixed(2) for naturals v and d > 0, rounding half up.
Fixed2(v, d) ==
    LET h == (v * 200 + d) \div (2 * d)
    IN  ToString(h \div 100) \o "." \o TwoDigits(h % 100)

\* (v / d).toFixed(1) for naturals v and d > 0, rounding half up.
Fixed1(v, d) ==
    LET t == (v * 20 + d) \div (2 * d)
    IN  ToString(t \div 10) \o "." \o ToString(t % 10)

\* safeText on a string: the empty string becomes the marker.
safeText(str) == IF str = "" THEN "N/A" ELSE str

\* formatLargeNumber on an optional amount of millions of dollars: the
\* thresholds 1e12, 1e9 and 1e6 dollars are 1000000, 1000 and 1 million.
formatLargeNumber(value) ==
    IF IsAbsent(value) THEN "N/A"
    ELSE LET v == value[1]
         IN  IF v >= 1000000 THEN "$" \o Fixed2(v, 1000000) \o "T"
             ELSE IF v >= 1000 THEN "$" \o Fixed2(v, 1000) \o "B"
             ELSE IF v >= 1 THEN "$" \o Fixed2(v, 1) \o "M"
             ELSE "$" \o ToString(v)

\* formatPercentage(value, 1) on an optional percentage held in tenths of a
\* percent; a ratio of r thousandths times 100 is r tenths of a percent.
formatPercentage(value) ==
    IF IsAbsent(value) THEN "N/A"
    ELSE Fixed1(value[1], 10) \o "%"

\* (n / d).toFixed(0) and (n / d).toFixed(1) for an integer n and d > 0: the
\* sign first, then the magnitude rounded half up.
SignedFixed0(n, d) ==
    (IF n < 0 THEN "-" ELSE "") \o ToString((2 * (IF n < 0 THEN -n ELSE n) + d) \div (2 * d))
SignedFixed1(n, d) ==
    (IF n < 0 THEN "-" ELSE "") \o Fixed1(IF n < 0 THEN -n ELSE n, d)

\* `$${cents.toFixed(2)}` on an amount of cents.
formatDollars(cents) == "$" \o Fixed2(cents, 100)

\* ((amount || 0) / 1e6).toFixed(0) on an optional amount of millions.
formatMillions(value) == ToString(OrZero(value))

----------------------------------------------------------------------------
(* The slides.  A slide is a record: its name in build()'s list (a chart   *)
(* slide: the chart's type), the text blocks added with addText that carry *)
(* content, the label/value pairs of its grids, the tables added with      *)
(* addTable (each a sequence of rows of cell texts) and its notes.         *)

Slide(name, kind, texts, fields, tables, notes) ==
    [name |-> name, kind |-> kind, texts |-> texts, fields |-> fields,
     tables |-> tables, notes |-> notes]

\* parseInt(s.calendarYear || '0')
YearOf(stmt) == OrZero(stmt.calendarYear)

RECURSIVE FilterHasYear(_)
\* .filter((s) => s && s.calendarYear)
FilterHasYear(income) ==
    IF income = <<>> THEN <<>>
    ELSE IF IsAbsent(Head(income).calendarYear) THEN FilterHasYear(Tail(income))
         ELSE <<Head(income)>> \o FilterHasYear(Tail(income))

RECURSIVE InsertAscending(_, _)
InsertAscending(stmt, sorted) ==
    IF sorted = <<>> THEN <<stmt>>
    ELSE IF YearOf(stmt) < YearOf(Head(sorted)) THEN <<stmt>> \o sorted
         ELSE <<Head(sorted)>> \o InsertAscending(stmt, Tail(sorted))

RECURSIVE SortAscending(_)
\* .sort((a, b) => parseInt(a.calendarYear) - parseInt(b.calendarYear)): stable.
SortAscending(income) ==
    IF income = <<>> THEN <<>>
    ELSE InsertAscending(income[Len(income)],
                         SortAscending(SubSeq(income, 1, Len(income) - 1)))

RECURSIVE InsertDescending(_, _)
InsertDescending(stmt, sorted) ==
    IF sorted = <<>> THEN <<stmt>>
    ELSE IF YearOf(stmt) > YearOf(Head(sorted)) THEN <<stmt>> \o sorted
         ELSE <<Head(sorted)>> \o InsertDescending(stmt, Tail(sorted))

RECURSIVE SortDescending(_)
\* .sort((a, b) => parseInt(b.calendarYear) - parseInt(a.calendarYear)): stable.
SortDescending(income) ==
    IF income = <<>> THEN <<>>
    ELSE InsertDescending(income[Len(income)],
                          SortDescending(SubSeq(income, 1, Len(income) - 1)))

\* .slice(0, n)
Slice(s, n) == SubSeq(s, 1, IF Len(s) < n THEN Len(s) ELSE n)

\* `FY${stmt.calendarYear || 'N/A'}` for each statement, through safeText.
YearHeaders(sortedIncome) ==
    [i \in 1..Len(sortedIncome) |->
        safeText("FY" \o (IF IsAbsent(sortedIncome[i].calendarYear) THEN "N/A"
                          ELSE ToString(sortedIncome[i].calendarYear[1])))]

\* One table row: the row's name, then one cell per statement.
Row(name, cells) == <<name>> \o [i \in 1..Len(cells) |-> safeText(cells[i])]

\* The companyData.ratiosTTM bundle is <<>> (null) or <<record>>.
HasRatios(cd) == cd.ratiosTTM # <<>>
RatioField(cd, f) == IF HasRatios(cd) THEN cd.ratiosTTM[1][f] ELSE Absent

\* ratios?.x ? `${(ratios.x * 100).toFixed(1)}%` : 'N/A'
GuardedPercent(value) == IF Truthy(value) THEN formatPercentage(value) ELSE "N/A"

KeyMetricsCellRevenue(s) == formatLargeNumber(Some(OrZero(s.revenue)))
KeyMetricsCellGrossProfit(s) == formatLargeNumber(Some(OrZero(s.grossProfit)))
KeyMetricsCellEbitda(s) == formatLargeNumber(Some(OrZero(s.ebitda)))
KeyMetricsCellNetIncome(s) == formatLargeNumber(Some(OrZero(s.netIncome)))
KeyMetricsCellGrossMargin(s) == formatPercentage(Some(OrZero(s.grossProfitRatio)))
KeyMetricsCellNetMargin(s) == formatPercentage(Some(OrZero(s.netIncomeRatio)))
KeyMetricsCellEps(s) == formatDollars(OrZero(s.epsdiluted))

\* The ttm cell of a margin row: formatPercentage((ratios.x || 0) * 100).
KeyMetricsTtm(cd, f) == safeText(formatPercentage(Some(OrZero(RatioField(cd, f)))))

KeyMetricsNotice == "Note: Detailed financial data requires premium API access"

\* A Key Metrics slide that never takes its no-data branch.
KeyMetricsIncomeNeverEmpty(income) == FALSE

KeyMetricsIncomeIsEmpty(income) == Len(income) = 0

addKeyMetrics(cd) ==
    LET income == cd.incomeStatements
        sortedIncome == Slice(SortDescending(FilterHasYear(income)), 4)
        ttm(t) == IF HasRatios(cd) THEN <<safeText(t)>> ELSE <<>>
        rows == <<
            <<"Metric">> \o YearHeaders(sortedIncome) \o ttm("TTM"),
            Row("Revenue", [i \in 1..Len(sortedIncome) |-> KeyMetricsCellRevenue(sortedIncome[i])]) \o ttm("-"),
            Row("Gross Profit", [i \in 1..Len(sortedIncome) |-> KeyMetricsCellGrossProfit(sortedIncome[i])]) \o ttm("-"),
            Row("EBITDA", [i \in 1..Len(sortedIncome) |-> KeyMetricsCellEbitda(sortedIncome[i])]) \o ttm("-"),
            Row("Net Income", [i \in 1..Len(sortedIncome) |-> KeyMetricsCellNetIncome(sortedIncome[i])]) \o ttm("-"),
            Row("Gross Margin", [i \in 1..Len(sortedIncome) |-> KeyMetricsCellGrossMargin(sortedIncome[i])])
                \o ttm(KeyMetricsTtm(cd, "grossProfitMarginTTM")),
            Row("Net Margin", [i \in 1..Len(sortedIncome) |-> KeyMetricsCellNetMargin(sortedIncome[i])])
                \o ttm(KeyMetricsTtm(cd, "netProfitMarginTTM")),
            Row("EPS (Diluted)", [i \in 1..Len(sortedIncome) |-> KeyMetricsCellEps(sortedIncome[i])]) \o ttm("-") >>
    IN  IF KeyMetricsIncomeIsEmpty(income)
        THEN Slide("KeyMetrics", "fixed",
                   <<"Key Metrics at a Glance", "VALUATION & TRADING METRICS",
                     KeyMetricsNotice>>,
                   <<>>, <<>>, "")
        ELSE Slide("KeyMetrics", "fixed",
                   <<"Key Metrics at a Glance", "FINANCIAL PERFORMANCE">>,
                   <<>>, <<rows>>, "")

FinancialSummaryNotice ==
    "Financial statement data requires premium API access. Please add financial data manually or upgrade your FMP subscription."

FinancialCellRevenue(s) == formatMillions(s.revenue)
FinancialCellGrossProfit(s) == formatMillions(s.grossProfit)
FinancialCellEbitda(s) == formatMillions(s.ebitda)
FinancialCellOperatingIncome(s) == formatMillions(s.operatingIncome)
FinancialCellNetIncome(s) == formatMillions(s.netIncome)

FinancialSummaryIncomeIsEmpty(income) == Len(income) = 0

addFinancialSummary(cd) ==
    LET income == cd.incomeStatements
        sortedIncome == SortAscending(FilterHasYear(income))
        rows == <<
            <<"($ millions)">> \o YearHeaders(sortedIncome),
            Row("Revenue", [i \in 1..Len(sortedIncome) |-> FinancialCellRevenue(sortedIncome[i])]),
            Row("Gross Profit", [i \in 1..Len(sortedIncome) |-> FinancialCellGrossProfit(sortedIncome[i])]),
            Row("EBITDA", [i \in 1..Len(sortedIncome) |-> FinancialCellEbitda(sortedIncome[i])]),
            Row("Operating Income", [i \in 1..Len(sortedIncome) |-> FinancialCellOperatingIncome(sortedIncome[i])]),
            Row("Net Income", [i \in 1..Len(sortedIncome) |-> FinancialCellNetIncome(sortedIncome[i])]) >>
    IN  IF FinancialSummaryIncomeIsEmpty(income)
        THEN Slide("FinancialSummary", "fixed",
                   <<"Financial Summary", FinancialSummaryNotice>>, <<>>, <<>>, "")
        ELSE Slide("FinancialSummary", "fixed",
                   <<"Financial Summary">>, <<>>, <<rows>>, "")

\* The EBITDA margin cell of the Investment Summary slide.
SummaryEbitdaMargin(income) ==
    IF /\ income # <<>>
       /\ OrZero(income[1].revenue) > 0
       /\ Truthy(income[1].ebitda)
    THEN Fixed1(income[1].ebitda[1] * 100, income[1].revenue[1]) \o "%"
    ELSE "N/A"

\* The `Revenue (LTM)` cell of the Investment Summary slide.
SummaryRevenue(income) ==
    IF income # <<>> THEN formatLargeNumber(income[1].revenue) ELSE "N/A"

\* `Number(profile?.price) || 0` and `Number(this.formData.targetPrice) || 0`,
\* in cents: a profile without a price and a form without a target give 0.
currentPrice(cd) == IF "price" \in DOMAIN cd.profile THEN cd.profile.price ELSE 0
targetPrice(fd) == IF "targetPrice" \in DOMAIN fd THEN fd.targetPrice ELSE 0

\* The numerator of `upside`, whose denominator is the current price:
\* (targetPrice - currentPrice) * 100 when both prices are positive, else 0.
upside(cd, fd) ==
    IF currentPrice(cd) > 0 /\ targetPrice(fd) > 0
    THEN (targetPrice(fd) - currentPrice(cd)) * 100
    ELSE 0

\* The UPSIDE cell of the cover's stats grid.
CoverUpside(cd, fd) ==
    IF currentPrice(cd) > 0 /\ targetPrice(fd) > 0
    THEN SignedFixed0(upside(cd, fd), currentPrice(cd)) \o "%"
    ELSE "N/A"

\* The Upside/(Downside) row of the Investment Summary's pricing column.
SummaryUpside(cd, fd) ==
    safeText(IF currentPrice(cd) > 0 /\ targetPrice(fd) > 0
             THEN (IF upside(cd, fd) >= 0 THEN "+" ELSE "")
                  \o SignedFixed1(upside(cd, fd), currentPrice(cd)) \o "%"
             ELSE "N/A")

\* The UPSIDE/DOWNSIDE box of the Valuation slide: `upside ? ... : 'TBD'`.
ValuationUpside(cd, fd) ==
    IF upside(cd, fd) # 0
    THEN (IF upside(cd, fd) >= 0 THEN "+" ELSE "")
         \o SignedFixed1(upside(cd, fd), currentPrice(cd)) \o "%"
    ELSE "TBD"

addInvestmentSummary(cd, fd) ==
    LET income == cd.incomeStatements
    IN  Slide("InvestmentSummary", "fixed", <<"Investment Summary">>,
              << <<"Revenue (LTM)", safeText(SummaryRevenue(income))>>,
                 <<"Gross Margin",
                   safeText(GuardedPercent(RatioField(cd, "grossProfitMarginTTM")))>>,
                 <<"EBITDA Margin", safeText(SummaryEbitdaMargin(income))>>,
                 <<"Net Margin",
                   safeText(GuardedPercent(RatioField(cd, "netProfitMarginTTM")))>>,
                 <<"Upside/(Downside)", SummaryUpside(cd, fd)>> >>,
              <<>>, "")

\* rating.toUpperCase()
ToUpperCase(rating) ==
    CASE rating = "Buy" -> "BUY"
      [] rating = "Outperform" -> "OUTPERFORM"
      [] rating = "Hold" -> "HOLD"
      [] rating = "Sell" -> "SELL"

\* A free text is falsy exactly when it is the empty string.
TextIsTruthy(text) == text # <<"">>

\* profile?.companyName || 'the company'
CompanyNameOr(cd, fallback) ==
    IF cd.profile.companyName = "" THEN fallback ELSE cd.profile.companyName

ThesisPlaceholder(cd, fd) ==
    "We recommend " \o ToUpperCase(fd.rating) \o " on "
        \o CompanyNameOr(cd, "the company") \o " based on [YOUR THESIS HERE]"

\* formData.investmentThesis ? formData.investmentThesis.split('\n')[0] : placeholder
ThesisText(cd, fd) ==
    IF TextIsTruthy(fd.investmentThesis) THEN fd.investmentThesis[1]
    ELSE ThesisPlaceholder(cd, fd)

ThesisTemplate ==
    <<"KEY CATALYSTS", "SUPPORTING EVIDENCE", "WHY NOW?",
      "Note: Replace placeholder content with your specific investment thesis, catalysts, and supporting analysis.">>

addInvestmentThesis(cd, fd) ==
    Slide("InvestmentThesis", "fixed",
          <<"Investment Thesis", "ACTION REQUIRED", ThesisText(cd, fd)>> \o ThesisTemplate,
          <<>>, <<>>,
          "USER ACTION REQUIRED: Replace the placeholder text with your investment thesis. Include your core thesis, catalysts, and supporting evidence.")

ValuationTemplate ==
    <<"DCF ANALYSIS", "COMPARABLE COMPANIES", "PRECEDENT TRANSACTIONS",
      "VALUATION SUMMARY", "[Add valuation range football field chart]">>

\* addValuation always renders the template below its price boxes.
addValuation(cd, fd) ==
    Slide("Valuation", "fixed",
          <<"Valuation Analysis", "ACTION REQUIRED">> \o ValuationTemplate,
          << <<"UPSIDE/DOWNSIDE", ValuationUpside(cd, fd)>> >>, <<>>,
          "USER ACTION REQUIRED: Replace placeholder text with your valuation analysis. Include DCF assumptions, comparable multiples, and target price derivation.")

RisksTemplate ==
    <<"KEY RISKS", "MITIGATING FACTORS", "MARKET / MACRO", "COMPETITIVE", "EXECUTION",
      "REGULATORY", "VALUATION",
      "Note: Replace placeholder risks and mitigants with company-specific analysis">>

\* addRisksAndMitigants reads no field of formData.
addRisksAndMitigants(fd) ==
    Slide("RisksAndMitigants", "fixed",
          <<"Risks & Mitigants", "ACTION REQUIRED">> \o RisksTemplate,
          <<>>, <<>>,
          "USER ACTION REQUIRED: Replace placeholder text with specific risks to your investment thesis and how they can be mitigated.")

\* The items of the table of contents, in the order the slide lists them.
TocItems ==
    <<"Investment Summary", "Company Overview", "Industry Overview", "Key Metrics",
      "Financial Summary", "Revenue & Growth Analysis", "Price Performance",
      "Peer Comparison", "Market Position", "Growth Drivers", "Investment Thesis",
      "Valuation", "Risks & Mitigants", "Appendix">>

addTableOfContents == Slide("TOC", "fixed", <<"Table of Contents">> \o TocItems, <<>>, <<>>, "")

\* The slides whose content no claim reads carry their heading only.
\* The cover: the company name and the stats grid.
addCover(cd, fd) ==
    Slide("Cover", "fixed", <<CompanyNameOr(cd, "Company Name")>>,
          << <<"UPSIDE", CoverUpside(cd, fd)>> >>, <<>>, "")

TitleSlide(name, title) == Slide(name, "fixed", <<title>>, <<>>, <<>>, "")

\* addChartSlide(chart): the chart's title and its image.
addChartSlide(chart) ==
    Slide(chart.type, "chart", <<chart.title>>, << <<"image", chart.dataURL>> >>,
          <<>>, "")

----------------------------------------------------------------------------
(* PitchDeckBuilder.build                                                  *)

\* A slides array whose Key Metrics and Financial Summary entries are swapped.
SlideListSwapped ==
    <<"Cover", "TOC", "InvestmentSummary", "CompanyOverview", "IndustryOverview",
      "FinancialSummary", "KeyMetrics", "PeersComps", "GrowthDrivers",
      "InvestmentThesis", "Valuation", "RisksAndMitigants", "Appendix">>

\* The names of build()'s slides array, in the order of the array.
SlideList ==
    <<"Cover", "TOC", "InvestmentSummary", "CompanyOverview", "IndustryOverview",
      "KeyMetrics", "FinancialSummary", "PeersComps", "GrowthDrivers",
      "InvestmentThesis", "Valuation", "RisksAndMitigants", "Appendix">>

\* The fn of each entry of the slides array.
SlideFn(name, cd, fd) ==
    CASE name = "Cover" -> addCover(cd, fd)
      [] name = "TOC" -> addTableOfContents
      [] name = "InvestmentSummary" -> addInvestmentSummary(cd, fd)
      [] name = "CompanyOverview" -> TitleSlide("CompanyOverview", "Company Overview")
      [] name = "IndustryOverview" -> TitleSlide("IndustryOverview", "Industry Overview")
      [] name = "KeyMetrics" -> addKeyMetrics(cd)
      [] name = "FinancialSummary" -> addFinancialSummary(cd)
      [] name = "PeersComps" -> TitleSlide("PeersComps", "Peer Comparison")
      [] name = "GrowthDrivers" -> TitleSlide("GrowthDrivers", "Growth Drivers")
      [] name = "InvestmentThesis" -> addInvestmentThesis(cd, fd)
      [] name = "Valuation" -> addValuation(cd, fd)
      [] name = "RisksAndMitigants" -> addRisksAndMitigants(fd)
      [] name = "Appendix" -> TitleSlide("Appendix", "Appendix")

\* A chart block that looks the charts up in the exporter's order.
ChartLookupExporterOrder == <<"pricePerformance", "revenueGrowth", "marketShare">>

\* The chart types in the order the chart block looks them up.
ChartLookupOrder == <<"revenueGrowth", "pricePerformance", "marketShare">>

RECURSIVE FilterType(_, _)
FilterType(chartList, type) ==
    IF chartList = <<>> THEN <<>>
    ELSE IF Head(chartList).type = type
         THEN <<Head(chartList)>> \o FilterType(Tail(chartList), type)
         ELSE FilterType(Tail(chartList), type)

\* this.charts.filter((c) => c.type === type): every chart of the type.
FindEveryChart(chartList, type) == FilterType(chartList, type)

\* this.charts.find((c) => c.type === type): <<>> (undefined) or <<the first>>.
FindChart(chartList, type) == Slice(FilterType(chartList, type), 1)

\* An error message is the sequence of its parts.
\* `Failed on slide "${slide.name}": ${error.message}`
SlideErrorMessage(name) == <<"Failed on slide", name, "cause">>
\* `Failed on chart slide: ${error.message}`
ChartErrorMessage(type) == <<"Failed on chart slide", "cause">>
\* `Failed generating PowerPoint file: ${error.message}`
WriteErrorMessage == <<"Failed generating PowerPoint file", "cause">>

\* One iteration of the for loop over the slides array.
BuildFixedSlide ==
    /\ pc = "slides"
    /\ slideIdx \in 1..Len(SlideList)
    /\ LET name == SlideList[slideIdx]
       IN  IF throwsAt = name
           THEN /\ pc' = "failed"
                /\ buildError' = <<SlideErrorMessage(name)>>
                /\ UNCHANGED <<deck, slideIdx>>
           ELSE /\ deck' = Append(deck, SlideFn(name, companyData, formData))
                /\ slideIdx' = slideIdx + 1
                /\ pc' = IF slideIdx = Len(SlideList) THEN "charts" ELSE "slides"
                /\ UNCHANGED buildError
    /\ UNCHANGED <<companyData, formData, charts, throwsAt, chartIdx, blob>>
    /\ UNCHANGED <<fetchVars, handlerVars, chartVars, cacheVars, pageVars>>

\* One lookup of the chart try block: find the chart and, if found, add its slide.
BuildChartSlide ==
    /\ pc = "charts"
    /\ chartIdx \in 1..Len(ChartLookupOrder)
    /\ LET type == ChartLookupOrder[chartIdx]
           found == FindChart(charts, type)
       IN  IF found # <<>> /\ throwsAt = type
           THEN /\ pc' = "failed"
                /\ buildError' = <<ChartErrorMessage(type)>>
                /\ UNCHANGED <<deck, chartIdx>>
           ELSE /\ deck' = deck \o [i \in 1..Len(found) |-> addChartSlide(found[i])]
                /\ chartIdx' = chartIdx + 1
                /\ pc' = IF chartIdx = Len(ChartLookupOrder) THEN "write" ELSE "charts"
                /\ UNCHANGED buildError
    /\ UNCHANGED <<companyData, formData, charts, throwsAt, slideIdx, blob>>
    /\ UNCHANGED <<fetchVars, handlerVars, chartVars, cacheVars, pageVars>>

\* await this.pptx.write({ outputType: 'blob' })
WriteBlob ==
    /\ pc = "write"
    /\ IF throwsAt = "write"
       THEN /\ pc' = "failed"
            /\ buildError' = <<WriteErrorMessage>>
            /\ UNCHANGED blob
       ELSE /\ pc' = "done"
            /\ blob' = <<deck>>
            /\ UNCHANGED buildError
    /\ UNCHANGED <<companyData, formData, charts, throwsAt, slideIdx, chartIdx, deck>>
    /\ UNCHANGED <<fetchVars, handlerVars, chartVars, cacheVars, pageVars>>

----------------------------------------------------------------------------
(* The inputs of generatePitchDeck                                         *)

MaxStatements == 3
MaxCharts == 3

Statement(year, revenue, grossProfit, ebitda, operatingIncome, netIncome, grossProfitRatio, netIncomeRatio, epsdiluted) ==
    [calendarYear |-> year, revenue |-> revenue, grossProfit |-> grossProfit,
     ebitda |-> ebitda, operatingIncome |-> operatingIncome, netIncome |-> netIncome,
     grossProfitRatio |-> grossProfitRatio, netIncomeRatio |-> netIncomeRatio,
     epsdiluted |-> epsdiluted]

\* Income statements: complete ones, one without EBITDA, one with no figure at
\* all, one whose figures are all zero, and one without a calendar year.
StatementPool ==
    { Statement(Some(2023), Some(3000), Some(1200), Some(900), Some(700), Some(500),
                Some(400), Some(167), Some(612)),
      Statement(Some(2022), Some(2500), Some(950), Some(700), Some(560), Some(410),
                Some(380), Some(164), Some(498)),
      Statement(Some(2021), Some(2100), Some(800), Absent, Some(450), Some(300),
                Some(381), Some(143), Some(371)),
      Statement(Some(2020), Absent, Absent, Absent, Absent, Absent,
                Absent, Absent, Absent),
      Statement(Some(2019), Some(0), Some(0), Some(0), Some(0), Some(0),
                Some(0), Some(0), Some(0)),
      Statement(Absent, Some(1800), Some(700), Some(500), Some(400), Some(250),
                Some(389), Some(139), Some(305)) }

RatiosPool ==
    { <<>>,
      <<[grossProfitMarginTTM |-> Some(431), netProfitMarginTTM |-> Some(252)]>>,
      <<[grossProfitMarginTTM |-> Absent, netProfitMarginTTM |-> Some(252)]>>,
      <<[grossProfitMarginTTM |-> Some(431), netProfitMarginTTM |-> Absent]>> }

ProfilePool == { [companyName |-> "Apple Inc."], [companyName |-> ""] }

\* Free texts: the empty string, one line, two lines, and a text whose first
\* line is empty.
TextPool ==
    { <<"">>, <<"Durable moat">>, <<"Durable moat", "Catalyst: new product">>,
      <<"", "Starts on line two">> }

ChartToggles ==
    [revenueGrowth : BOOLEAN, pricePerformance : BOOLEAN, marketShare : BOOLEAN]

\* Rasterized charts, with the titles the exporter gives them; two images of
\* the revenue chart so that find's choice of the first one shows.
ChartPool ==
    { [type |-> "pricePerformance", title |-> "Stock Price Performance", dataURL |-> "png:price"],
      [type |-> "revenueGrowth", title |-> "Revenue & Growth", dataURL |-> "png:revenue"],
      [type |-> "marketShare", title |-> "Market Share", dataURL |-> "png:share"],
      [type |-> "revenueGrowth", title |-> "Revenue & Growth", dataURL |-> "png:revenue-2"] }

\* The array the chart exporter delivers when all three charts are rasterized.
ExporterCharts ==
    << [type |-> "pricePerformance", title |-> "Stock Price Performance", dataURL |-> "png:price"],
       [type |-> "revenueGrowth", title |-> "Revenue & Growth", dataURL |-> "png:revenue"],
       [type |-> "marketShare", title |-> "Market Share", dataURL |-> "png:share"] >>

ThrowPoints == {"none", "write"} \cup Range(SlideList) \cup Range(ChartLookupOrder)

FormData(toggles, thesis, valuation, risks) ==
    [rating |-> "Buy", charts |-> toggles, investmentThesis |-> thesis,
     valuation |-> valuation, risksAndMitigants |-> risks]

CompanyData(prof, income, ratios) ==
    [profile |-> prof, incomeStatements |-> income, ratiosTTM |-> ratios]

FullStatements ==
    << Statement(Some(2023), Some(3000), Some(1200), Some(900), Some(700), Some(500),
                 Some(400), Some(167), Some(612)),
       Statement(Some(2022), Some(2500), Some(950), Some(700), Some(560), Some(410),
                 Some(380), Some(164), Some(498)) >>

BuilderConstructed ==
    /\ pc = "slides"
    /\ slideIdx = 1
    /\ chartIdx = 1
    /\ deck = <<>>
    /\ buildError = <<>>
    /\ blob = <<>>

AllChartsEnabled ==
    [revenueGrowth |-> TRUE, pricePerformance |-> TRUE, marketShare |-> TRUE]

FullCompanyData ==
    CompanyData([companyName |-> "Apple Inc."], FullStatements,
                <<[grossProfitMarginTTM |-> Some(431), netProfitMarginTTM |-> Some(252)]>>)

\* Every chart array and every combination of toggles, on complete company
\* data, with no throwing step.
InitBuildOrder ==
    /\ charts \in SeqsOver(ChartPool, MaxCharts)
    /\ \E toggles \in ChartToggles :
          formData = FormData(toggles, <<"Durable moat">>, <<"">>, <<"">>)
    /\ throwsAt = "none"
    /\ companyData = FullCompanyData
    /\ BuilderConstructed

\* Every throwing step, on the arrays of at most one chart and on the
\* exporter's array.
InitBuildFault ==
    /\ charts \in SeqsOver(ChartPool, 1) \cup {ExporterCharts}
    /\ formData = FormData(AllChartsEnabled, <<"Durable moat">>, <<"">>, <<"">>)
    /\ throwsAt \in ThrowPoints
    /\ companyData = FullCompanyData
    /\ BuilderConstructed

\* Every combination of free texts, for a named and an unnamed company.
InitBuildTexts ==
    /\ charts = ExporterCharts
    /\ \E thesis \in TextPool, valuation, risks \in {<<"">>, <<"Durable moat">>} :
          formData = FormData(AllChartsEnabled, thesis, valuation, risks)
    /\ throwsAt = "none"
    /\ \E prof \in ProfilePool :
          companyData = CompanyData(prof, FullStatements, <<>>)
    /\ BuilderConstructed

\* Every statement series and ratio bundle, with no throwing step.
\* Prices in cents: none, and a current price below, at and above a target.
PricePool == {0, 8000, 10000, 12000}

InitBuildPrices ==
    /\ charts = <<>>
    /\ throwsAt = "none"
    /\ \E price \in PricePool, target \in PricePool, hasPrice, hasTarget \in BOOLEAN :
          /\ hasPrice \/ price = 0
          /\ hasTarget \/ target = 0
          /\ companyData =
                CompanyData(IF hasPrice
                            THEN [companyName |-> "Apple Inc.", price |-> price]
                            ELSE [companyName |-> "Apple Inc."],
                            FullStatements, <<>>)
          /\ formData =
                IF hasTarget
                THEN FormData(AllChartsEnabled, <<"Durable moat">>, <<"">>, <<"">>)
                     @@ [targetPrice |-> target]
                ELSE FormData(AllChartsEnabled, <<"Durable moat">>, <<"">>, <<"">>)
    /\ BuilderConstructed

InitBuildContent ==
    /\ charts \in {<<>>, ExporterCharts}
    /\ formData = FormData(AllChartsEnabled, <<"Durable moat">>, <<"">>, <<"">>)
    /\ throwsAt = "none"
    /\ \E income \in SeqsOver(StatementPool, MaxStatements), ratios \in RatiosPool :
          companyData = CompanyData([companyName |-> "Apple Inc."], income, ratios)
    /\ BuilderConstructed

----------------------------------------------------------------------------
(* The FMP client: getCachedOrFetch, fmpRequest, safeFetch, getPeerData    *)
(* and fetchAllCompanyData, for one call fetchAllCompanyData(Subject).     *)

MaxPeers == 6

Subject == "AAPL"

\* A provider request: the endpoint and the symbol asked for.
Request(endpoint, symbol) == <<endpoint, symbol>>

\* The eight fetches of wave one, in the order of the Promise.all array, each
\* with the endpoint fmpRequest asks.
WaveOne ==
    <<"income-statement", "balance-sheet-statement", "cash-flow-statement",
      "ratios-ttm", "key-metrics", "enterprise-values", "historical-price-eod",
      "stock-peers">>

CacheKeys == {"profile"} \cup Range(WaveOne)

\* What the provider may answer: a status, a timeout or a network failure.
Answers == {"200", "401", "403", "429", "500", "timeout", "network"}

\* fmpRequest's catch block: the APIError code thrown for a failed request;
\* "" when fmpRequest returns instead ([] on a 403 with allowEmpty).
fmpRequestErrorCode(answer, allowEmpty) ==
    CASE answer = "401" -> "AUTH_ERROR"
      [] answer = "403" -> IF allowEmpty THEN "" ELSE "FORBIDDEN"
      [] answer = "429" -> "RATE_LIMIT"
      [] answer = "500" -> "API_ERROR"
      [] answer = "timeout" -> "TIMEOUT"
      [] answer = "network" -> "NETWORK_ERROR"
      [] answer = "200" -> ""

\* Only getCompanyPeers passes allowEmpty.
AllowEmpty(endpoint) == endpoint = "stock-peers"

\* apiError.message?.includes('403'): none of the messages createAPIError is
\* given in fmpRequest, nor getApiKey's, holds the text 403.
MessageIncludes403(code) == FALSE

\* A safeFetch that rethrows whatever its fetch throws.
safeFetchRethrows(code) == FALSE

\* safeFetch's catch block: the errors it turns into the default value.
safeFetchRecovers(code) == code = "FORBIDDEN" \/ MessageIncludes403(code)

\* The symbols of a peer list of n peers.
PeerSymbols(n) == [i \in 1..n |-> "P" \o ToString(i)]

\* Every peer of the list, none cut.
EveryPeer(list) == list

\* peerSymbols.slice(0, 5)
EnrichedPeers(list) == Slice(list, 5)


\* getCompanyProfile(upperSymbol): the cached entry, or a provider request; with
\* no API key fmpRequest throws before any request is issued.
CallFetchAll ==
    /\ fpc = "start"
    /\ IF cache["profile"] # <<>>
       THEN /\ fpc' = "profile-cached"
            /\ UNCHANGED <<requests, fetchError>>
       ELSE IF ~apiKeySet
            THEN /\ fpc' = "rejected"
                 /\ fetchError' = "CONFIG"
                 /\ UNCHANGED requests
            ELSE /\ fpc' = "profile-wait"
                 /\ requests' = Append(requests, Request("profile", Subject))
                 /\ UNCHANGED fetchError
    /\ UNCHANGED <<apiKeySet, cache, profile, wave, waveAnswer, peerList, peerState, fetchResult>>
    /\ UNCHANGED <<buildVars, handlerVars, chartVars, cacheVars, pageVars>>

\* A profile step without the NOT_FOUND check.
ProfileResolvedUnchecked(payload) ==
    /\ profile' = IF payload = "found" THEN <<Subject>> ELSE <<>>
    /\ fpc' = "wave-one"
    /\ UNCHANGED fetchError

\* data?.[0] || null, then the NOT_FOUND check.
ProfileResolved(payload) ==
    IF payload = "found"
    THEN /\ profile' = <<Subject>>
         /\ fpc' = "wave-one"
         /\ UNCHANGED fetchError
    ELSE /\ profile' = <<>>
         /\ fpc' = "rejected"
         /\ fetchError' = "NOT_FOUND"

\* The profile is served from the cache.
ProfileFromCache ==
    /\ fpc = "profile-cached"
    /\ ProfileResolved(cache["profile"][1])
    /\ UNCHANGED <<apiKeySet, cache, wave, waveAnswer, peerList, peerState, requests, fetchResult>>
    /\ UNCHANGED <<buildVars, handlerVars, chartVars, cacheVars, pageVars>>

\* The provider answers the profile request.
ProfileResponse ==
    /\ fpc = "profile-wait"
    /\ \E answer \in Answers :
          IF answer = "200"
          THEN \E payload \in {"found", "empty"} :
                  /\ cache' = [cache EXCEPT !["profile"] = <<payload>>]
                  /\ ProfileResolved(payload)
          ELSE /\ fpc' = "rejected"
               /\ fetchError' = fmpRequestErrorCode(answer, FALSE)
               /\ UNCHANGED <<cache, profile>>
    /\ UNCHANGED <<apiKeySet, wave, waveAnswer, peerList, peerState, requests, fetchResult>>
    /\ UNCHANGED <<buildVars, handlerVars, chartVars, cacheVars, pageVars>>

RECURSIVE WaveRequests(_, _)
\* The requests the Promise.all array issues, in array order: one for each
\* fetch whose cache key holds no entry.
WaveRequests(list, c) ==
    IF list = <<>> THEN <<>>
    ELSE (IF c[Head(list)] = <<>> THEN <<Request(Head(list), Subject)>> ELSE <<>>)
         \o WaveRequests(Tail(list), c)

\* The Promise.all array is built: the eight safeFetch calls start together.
\* A cached fetch resolves from the cache; with no API key an uncached one
\* throws inside fmpRequest, which safeFetch rethrows.
StartWaveOne ==
    /\ fpc = "wave-one"
    /\ \A f \in Range(WaveOne) : wave[f] = "idle"
    /\ wave' = [f \in Range(WaveOne) |->
                  IF cache[f] # <<>> THEN "value"
                  ELSE IF apiKeySet THEN "pending" ELSE "failed"]
    /\ requests' = IF apiKeySet THEN requests \o WaveRequests(WaveOne, cache)
                   ELSE requests
    /\ peerList' = IF cache["stock-peers"] # <<>> THEN cache["stock-peers"][1]
                   ELSE peerList
    /\ IF ~apiKeySet /\ \E f \in Range(WaveOne) : cache[f] = <<>>
       THEN /\ fpc' = "rejected"
            /\ fetchError' = "CONFIG"
       ELSE UNCHANGED <<fpc, fetchError>>
    /\ UNCHANGED <<apiKeySet, cache, profile, waveAnswer, peerState, fetchResult>>
    /\ UNCHANGED <<buildVars, handlerVars, chartVars, cacheVars, pageVars>>

\* What one wave-one fetch can settle to, over every answer of the provider:
\* the state of its safeFetch promise, the error code it rejects with and the
\* data getCachedOrFetch stored (<<>>: nothing stored).
WaveOneOutcomes(f) ==
    { LET code == fmpRequestErrorCode(a[1], AllowEmpty(f))
      IN  IF code = ""
          THEN [answer |-> a[1], state |-> "value", code |-> "",
                stored |-> << IF f # "stock-peers" THEN "value"
                              ELSE IF a[1] = "200" THEN PeerSymbols(a[2])
                              ELSE <<>> >>]
          ELSE IF safeFetchRecovers(code)
               THEN [answer |-> a[1], state |-> "default", code |-> "", stored |-> <<>>]
               ELSE [answer |-> a[1], state |-> "failed", code |-> code, stored |-> <<>>]
      : a \in Answers \X (0..MaxPeers) }

\* The provider answers one wave-one request while Promise.all is pending.
\* Promise.all rejects with the first error safeFetch rethrows, which ends the
\* call: the requests still in flight then only fill the cache.
WaveOneResponse(f) ==
    /\ fpc = "wave-one"
    /\ wave[f] = "pending"
    /\ \E outcome \in WaveOneOutcomes(f) :
          /\ wave' = [wave EXCEPT ![f] = outcome.state]
          /\ waveAnswer' = [waveAnswer EXCEPT ![f] = outcome.answer]
          /\ cache' = IF outcome.stored # <<>>
                      THEN [cache EXCEPT ![f] = outcome.stored]
                      ELSE cache
          /\ peerList' = IF f = "stock-peers" /\ outcome.stored # <<>>
                         THEN outcome.stored[1]
                         ELSE peerList
          /\ IF outcome.state = "failed"
             THEN fpc' = "rejected" /\ fetchError' = outcome.code
             ELSE UNCHANGED <<fpc, fetchError>>
    /\ UNCHANGED <<apiKeySet, profile, peerState, requests, fetchResult>>
    /\ UNCHANGED <<buildVars, handlerVars, chartVars, cacheVars, pageVars>>

RECURSIVE PeerRequests(_)
\* getPeerData: for each enriched peer, its profile and its TTM ratios.
PeerRequests(list) ==
    IF list = <<>> THEN <<>>
    ELSE <<Request("profile", Head(list)), Request("ratios-ttm", Head(list))>>
         \o PeerRequests(Tail(list))

\* The CompanyData returned, by category: "value" or "default".
CompanyDataResult(peersData) ==
    [profile |-> profile, categories |-> wave, peers |-> peerList,
     peersData |-> peersData]

\* Promise.all resolved: peers.length > 0 ? getPeerData(peers) : [].
WaveOneDone ==
    /\ fpc = "wave-one"
    /\ \A f \in Range(WaveOne) : wave[f] \in {"value", "default"}
    /\ IF Len(peerList) > 0
       THEN /\ fpc' = "wave-two"
            /\ peerState' = [i \in 1..Len(EnrichedPeers(peerList)) |->
                                IF apiKeySet THEN "pending" ELSE "null"]
            /\ requests' = IF apiKeySet
                           THEN requests \o PeerRequests(EnrichedPeers(peerList))
                           ELSE requests
            /\ UNCHANGED fetchResult
       ELSE /\ fpc' = "resolved"
            /\ fetchResult' = <<CompanyDataResult(<<>>)>>
            /\ UNCHANGED <<peerState, requests>>
    /\ UNCHANGED <<apiKeySet, cache, profile, wave, waveAnswer, peerList, fetchError>>
    /\ UNCHANGED <<buildVars, handlerVars, chartVars, cacheVars, pageVars>>

\* The answers the claims call hard failures: an auth error, a rate limit, a
\* timeout, a network error.
HardFailures == {"401", "429", "timeout", "network"}

\* What one peer's Promise.all([getCompanyProfile, getRatiosTTM]) inside the
\* try block can settle to, over every pair of answers: a record when both
\* calls succeed and the profile is found; otherwise null, because the profile
\* is not found or because the catch block caught what a call threw.  The
\* null of a caught hard failure is written "swallowed".
PeerOutcomes ==
    { IF /\ fmpRequestErrorCode(a[1], FALSE) = ""
         /\ fmpRequestErrorCode(a[2], FALSE) = ""
      THEN (IF a[3] = "found" THEN "record" ELSE "null")
      ELSE (IF a[1] \in HardFailures \/ a[2] \in HardFailures
            THEN "swallowed" ELSE "null")
      : a \in Answers \X Answers \X {"found", "empty"} }

\* One enriched peer settles.
PeerSettled(i) ==
    /\ fpc = "wave-two"
    /\ i \in 1..Len(peerState)
    /\ peerState[i] = "pending"
    /\ \E outcome \in PeerOutcomes :
          peerState' = [peerState EXCEPT ![i] = outcome]
    /\ UNCHANGED <<apiKeySet, cache, fpc, profile, wave, waveAnswer, peerList, requests,
                   fetchResult, fetchError>>
    /\ UNCHANGED <<buildVars, handlerVars, chartVars, cacheVars, pageVars>>

RECURSIVE PeerRecords(_, _)
\* results.filter((p) => p !== null)
PeerRecords(list, state) ==
    IF list = <<>> THEN <<>>
    ELSE (IF Head(state) = "record" THEN <<Head(list)>> ELSE <<>>)
         \o PeerRecords(Tail(list), Tail(state))

\* getPeerData resolved: fetchAllCompanyData returns the CompanyData.
WaveTwoDone ==
    /\ fpc = "wave-two"
    /\ \A i \in 1..Len(peerState) : peerState[i] # "pending"
    /\ fpc' = "resolved"
    /\ fetchResult' = <<CompanyDataResult(PeerRecords(EnrichedPeers(peerList), peerState))>>
    /\ UNCHANGED <<apiKeySet, cache, profile, wave, waveAnswer, peerList, peerState, requests,
                   fetchError>>
    /\ UNCHANGED <<buildVars, handlerVars, chartVars, cacheVars, pageVars>>

\* The wave-one answers the third initial cache holds.
WarmKeys ==
    {"income-statement", "balance-sheet-statement", "cash-flow-statement",
     "ratios-ttm", "key-metrics"}

\* The cache at the call, fresh entries only (an expired entry reads as no
\* entry): empty; the profile answer with no profile in it; the profile and
\* five wave-one answers; the profile and every wave-one answer.
InitialCaches ==
    { [k \in CacheKeys |-> <<>>],
      [k \in CacheKeys |-> IF k = "profile" THEN <<"empty">> ELSE <<>>],
      [k \in CacheKeys |-> IF k = "profile" THEN <<"found">>
                           ELSE IF k \in WarmKeys THEN <<"value">>
                           ELSE <<>>],
      [k \in CacheKeys |-> IF k = "profile" THEN <<"found">>
                           ELSE IF k = "stock-peers" THEN <<PeerSymbols(2)>>
                           ELSE <<"value">>] }

FetchIdle ==
    /\ fpc = "start"
    /\ profile = <<>>
    /\ wave = [f \in Range(WaveOne) |-> "idle"]
    /\ waveAnswer = [f \in Range(WaveOne) |-> ""]
    /\ peerList = <<>>
    /\ peerState = <<>>
    /\ requests = <<>>
    /\ fetchResult = <<>>
    /\ fetchError = ""

InitFetch ==
    /\ apiKeySet \in BOOLEAN
    /\ cache \in InitialCaches
    /\ FetchIdle

\* The builder is not running while the data is fetched.
BuildIdle ==
    /\ companyData = CompanyData([companyName |-> ""], <<>>, <<>>)
    /\ formData = FormData([revenueGrowth |-> FALSE, pricePerformance |-> FALSE,
                            marketShare |-> FALSE], <<"">>, <<"">>, <<"">>)
    /\ charts = <<>>
    /\ throwsAt = "none"
    /\ pc = "idle"
    /\ slideIdx = 1
    /\ chartIdx = 1
    /\ deck = <<>>
    /\ buildError = <<>>
    /\ blob = <<>>

\* No fetch is running while the deck is built.
FetchNotRunning ==
    /\ apiKeySet = TRUE
    /\ cache = [k \in CacheKeys |-> <<>>]
    /\ fpc = "idle"
    /\ profile = <<>>
    /\ wave = [f \in Range(WaveOne) |-> "idle"]
    /\ waveAnswer = [f \in Range(WaveOne) |-> ""]
    /\ peerList = <<>>
    /\ peerState = <<>>
    /\ requests = <<>>
    /\ fetchResult = <<>>
    /\ fetchError = ""

----------------------------------------------------------------------------
(* The company-data API handlers: the aggregated endpoint with the Yahoo   *)
(* fallback and the FMP-only endpoint                                      *)

\* res.status(status).json(body): the status, the body's error text ("" when
\* the body is a CompanyData), the provider of the CompanyData and the
\* CompanyData (<<>>: none).
Response(status, error, source, body) ==
    <<[status |-> status, error |-> error, source |-> source, body |-> body]>>

\* The CompanyData fetchYahooCompanyData builds from a quote: a profile, the
\* ratios and the prices (none when historical threw); no statement, metric,
\* enterprise value or peer.
YahooCompanyData(summary, history) ==
    [profile |-> <<Subject>>,
     profileDetail |-> summary = "ok",
     categories |-> [f \in Range(WaveOne) |->
                       IF f = "ratios-ttm" \/ (f = "historical-price-eod" /\ history = "ok")
                       THEN "value" ELSE "default"],
     peers |-> <<>>,
     peersData |-> <<>>]

\* The yahoo-finance2 calls fetchYahooCompanyData makes: the quote, then, with
\* a quote, the summary and the price history.
YahooCallsMade(quote) ==
    IF quote = "found" THEN <<"quote", "quoteSummary", "historical">> ELSE <<"quote">>

\* Both handlers: the method and the symbol are checked first.
RequestRejection ==
    IF reqMethod # "GET" THEN Response(405, "Method not allowed", "", <<>>)
    ELSE IF reqSymbol = <<>> THEN Response(400, "Symbol required", "", <<>>)
    ELSE <<>>

\* fetchAllCompanyData(upperSymbol) is called.
CallPrimary ==
    /\ fpc' = "start"
    /\ hpc' = "primary"
    /\ UNCHANGED response

\* A fallback handler that answers a rate limit the way the FMP-only one does.
FallbackRejectionStatusRateLimited(code) ==
    CASE code = "AUTH_ERROR" -> 401
      [] code = "RATE_LIMIT" -> 429
      [] OTHER -> 0

\* The fallback handler's catch block: the status it answers a rejection of
\* fetchAllCompanyData with, 0 when it falls through to Yahoo Finance.
FallbackRejectionStatus(code) ==
    IF code \notin {"RATE_LIMIT", "NETWORK_ERROR", "TIMEOUT"} /\ code = "AUTH_ERROR"
    THEN 401
    ELSE 0

\* The fallback handler up to its first await: FMP is tried if the API key is
\* configured, Yahoo Finance otherwise.
FallbackHandlerEntry ==
    /\ handlerKind = "fallback"
    /\ hpc = "entry"
    /\ IF RequestRejection # <<>>
       THEN /\ response' = RequestRejection
            /\ hpc' = "responded"
            /\ UNCHANGED fpc
       ELSE IF apiKeySet
            THEN CallPrimary
            ELSE /\ hpc' = "secondary"
                 /\ UNCHANGED <<fpc, response>>
    /\ UNCHANGED <<handlerKind, reqMethod, reqSymbol, yahooQuote, yahooCalls>>
    /\ UNCHANGED <<apiKeySet, cache, profile, wave, waveAnswer, peerList, peerState,
                   requests, fetchResult, fetchError>>
    /\ UNCHANGED <<buildVars, chartVars, cacheVars, pageVars>>

\* The fallback handler after fetchAllCompanyData settled.
FallbackHandlerPrimarySettled ==
    /\ handlerKind = "fallback"
    /\ hpc = "primary"
    /\ fpc \in {"resolved", "rejected"}
    /\ IF fpc = "resolved"
       THEN IF fetchResult[1].profile # <<>>
            THEN /\ response' = Response(200, "", "fmp", fetchResult[1])
                 /\ hpc' = "responded"
            ELSE /\ hpc' = "secondary"
                 /\ UNCHANGED response
       ELSE IF FallbackRejectionStatus(fetchError) # 0
            THEN /\ response' = Response(FallbackRejectionStatus(fetchError),
                                         "Invalid API key", "", <<>>)
                 /\ hpc' = "responded"
            ELSE /\ hpc' = "secondary"
                 /\ UNCHANGED response
    /\ UNCHANGED <<handlerKind, reqMethod, reqSymbol, yahooQuote, yahooCalls>>
    /\ UNCHANGED fetchVars
    /\ UNCHANGED <<buildVars, chartVars, cacheVars, pageVars>>

\* The fallback handler's second try block: fetchYahooCompanyData, which
\* throws with no quote or when the quote call throws and survives a failing
\* summary or history call.
FallbackHandlerSecondary ==
    /\ handlerKind = "fallback"
    /\ hpc = "secondary"
    /\ \E quote \in {"found", "undefined", "throws"}, summary, history \in {"ok", "throws"} :
          /\ yahooQuote' = quote
          /\ yahooCalls' = yahooCalls \o YahooCallsMade(quote)
          /\ response' =
                IF quote = "found"
                THEN IF YahooCompanyData(summary, history).profile # <<>>
                     THEN Response(200, "", "yahoo", YahooCompanyData(summary, history))
                     ELSE Response(404, "Company not found", "", <<>>)
                ELSE Response(500, "Failed to fetch company data", "", <<>>)
    /\ hpc' = "responded"
    /\ UNCHANGED <<handlerKind, reqMethod, reqSymbol>>
    /\ UNCHANGED fetchVars
    /\ UNCHANGED <<buildVars, chartVars, cacheVars, pageVars>>

\* The FMP-only handler up to its await: without an API key it answers 500.
FmpHandlerEntry ==
    /\ handlerKind = "fmp-only"
    /\ hpc = "entry"
    /\ IF RequestRejection # <<>>
       THEN /\ response' = RequestRejection
            /\ hpc' = "responded"
            /\ UNCHANGED fpc
       ELSE IF ~apiKeySet
            THEN /\ response' = Response(500, "API key not configured", "", <<>>)
                 /\ hpc' = "responded"
                 /\ UNCHANGED fpc
            ELSE CallPrimary
    /\ UNCHANGED <<handlerKind, reqMethod, reqSymbol, yahooQuote, yahooCalls>>
    /\ UNCHANGED <<apiKeySet, cache, profile, wave, waveAnswer, peerList, peerState,
                   requests, fetchResult, fetchError>>
    /\ UNCHANGED <<buildVars, chartVars, cacheVars, pageVars>>

\* The FMP-only handler's catch block.
FmpRejectionResponse(code) ==
    CASE code = "AUTH_ERROR" -> Response(401, "Invalid API key", "", <<>>)
      [] code = "RATE_LIMIT" -> Response(429, "API rate limit exceeded", "", <<>>)
      [] OTHER -> Response(500, "Failed to fetch company data", "", <<>>)

\* The FMP-only handler after fetchAllCompanyData settled.
FmpHandlerSettled ==
    /\ handlerKind = "fmp-only"
    /\ hpc = "primary"
    /\ fpc \in {"resolved", "rejected"}
    /\ response' = IF fpc = "resolved"
                   THEN IF fetchResult[1].profile = <<>>
                        THEN Response(404, "Company not found", "", <<>>)
                        ELSE Response(200, "", "fmp", fetchResult[1])
                   ELSE FmpRejectionResponse(fetchError)
    /\ hpc' = "responded"
    /\ UNCHANGED <<handlerKind, reqMethod, reqSymbol, yahooQuote, yahooCalls>>
    /\ UNCHANGED fetchVars
    /\ UNCHANGED <<buildVars, chartVars, cacheVars, pageVars>>

\* The cache when a request arrives: the profile entry expired and every other
\* entry fresh (the profile entry is the oldest of a call), or one of the
\* caches of InitialCaches that holds entries.
HandlerCaches ==
    { [k \in CacheKeys |-> IF k = "profile" THEN <<>>
                           ELSE IF k = "stock-peers" THEN <<PeerSymbols(1)>>
                           ELSE <<"value">>] }
    \cup {c \in InitialCaches : c["profile"] # <<>>}

\* A request arrives at one of the two handlers.
InitHandler ==
    /\ handlerKind \in {"fallback", "fmp-only"}
    /\ reqMethod \in {"GET", "POST"}
    /\ reqSymbol \in {<<>>, <<Subject>>}
    /\ hpc = "entry"
    /\ yahooQuote = ""
    /\ yahooCalls = <<>>
    /\ response = <<>>
    /\ apiKeySet \in BOOLEAN
    /\ cache \in HandlerCaches
    /\ fpc = "idle"
    /\ profile = <<>>
    /\ wave = [f \in Range(WaveOne) |-> "idle"]
    /\ waveAnswer = [f \in Range(WaveOne) |-> ""]
    /\ peerList = <<>>
    /\ peerState = <<>>
    /\ requests = <<>>
    /\ fetchResult = <<>>
    /\ fetchError = ""
    /\ BuildIdle
    /\ ChartsIdle
    /\ CacheIdle
    /\ PageIdle

\* No request is being served.
HandlerIdle ==
    /\ handlerKind = "fallback"
    /\ reqMethod = "GET"
    /\ reqSymbol = <<>>
    /\ hpc = "idle"
    /\ yahooQuote = ""
    /\ yahooCalls = <<>>
    /\ response = <<>>

----------------------------------------------------------------------------
(* The chart helpers: calculateRevenueGrowth (FMP client), processPriceData *)
(* and calculateMarketShare (chartHelpers), and the market-share decisions  *)
(* of handleFormSubmit and generateAllCharts.                               *)
(*                                                                          *)
(* A date is the natural number yyyymmdd, so that the order of the numbers  *)
(* is the order of new Date(date).getTime().  A growth rate is a whole      *)
(* number of tenths of a percent.  A quotient the code leaves unrounded is  *)
(* the pair <<numerator, denominator>>.                                     *)

\* The fields of an FMPIncomeStatement that the growth helpers read.
DatedStatement(date, year, revenue) == [date |-> date, calendarYear |-> year, revenue |-> revenue]

\* Array.prototype.sort with the comparator sign * (a[key] - b[key]): stable,
\* ascending for sign = 1 and descending for sign = -1.  rank[i] is the place
\* of items[i] in the sorted array (<<>> \o makes the function a sequence).
SortBy(items, key, sign) ==
    LET n == Len(items)
        rank == <<>> \o [i \in 1..n |->
                   1 + Cardinality({j \in 1..n :
                         \/ sign * (items[j][key] - items[i][key]) < 0
                         \/ items[j][key] = items[i][key] /\ j < i})]
    IN  <<>> \o [k \in 1..n |-> items[CHOOSE i \in 1..n : rank[i] = k]]

\* The array left as the provider sent it.
LeftUnsorted(items) == items

SortByDate(items) == SortBy(items, "date", 1)

\* Math.round(num / den) for den > 0: halves round towards plus infinity.
MathRound(num, den) == (2 * num + den) \div (2 * den)

\* Math.round(((curr - prev) / prev) * 100 * 10) / 10, in tenths of a percent.
RoundedGrowth(prev, curr) == MathRound((curr - prev) * 1000, prev)

RECURSIVE GrowthRatesFrom(_, _)
\* The for loop of calculateRevenueGrowth from index i (1-based here).
GrowthRatesFrom(sorted, i) ==
    IF i > Len(sorted) THEN <<>>
    ELSE (IF sorted[i - 1].revenue > 0
          THEN <<[year |-> sorted[i].calendarYear,
                  growth |-> RoundedGrowth(sorted[i - 1].revenue, sorted[i].revenue)]>>
          ELSE <<>>)
         \o GrowthRatesFrom(sorted, i + 1)

calculateRevenueGrowth(incomeStatements) ==
    GrowthRatesFrom(SortByDate(incomeStatements), 2)

\* Statements of five fiscal years, two of them with no revenue.
DatedStatementPool ==
    { DatedStatement(20191231, 2019, 0), DatedStatement(20201231, 2020, 800),
      DatedStatement(20211231, 2021, 1000), DatedStatement(20221231, 2022, 0),
      DatedStatement(20231231, 2023, 1500) }

\* The arrays of at most n different elements of a set, in every order.
ArraysOf(S, n) ==
    {s \in SeqsOver(S, n) : \A i, j \in 1..Len(s) : i # j => s[i] # s[j]}

CallCalculateRevenueGrowth ==
    /\ helper = "calculateRevenueGrowth"
    /\ helperResult = <<>>
    /\ helperResult' = <<calculateRevenueGrowth(helperArgs.incomeStatements)>>
    /\ UNCHANGED <<helper, helperArgs>>
    /\ UNCHANGED <<buildVars, fetchVars, handlerVars, cacheVars, pageVars>>

InitCalculateRevenueGrowth ==
    /\ helper = "calculateRevenueGrowth"
    /\ helperArgs \in {[incomeStatements |-> s] : s \in ArraysOf(DatedStatementPool, MaxStatements)}
    /\ helperResult = <<>>

\* The fields of an FMPHistoricalPrice that processPriceData reads: the date
\* and the close in cents.
PricePoint(date, close) == [date |-> date, close |-> close]

\* processPriceData's default for maxPoints.
DefaultMaxPoints == 250

\* Math.max(1, Math.floor(sorted.length / maxPoints))
SampleStep(length, maxPoints) ==
    IF length \div maxPoints > 1 THEN length \div maxPoints ELSE 1

\* sorted.filter((_, index) => index % step === 0), indices counted from 0.
Sampled(sorted, step) ==
    [k \in 1..((Len(sorted) + step - 1) \div step) |-> sorted[(k - 1) * step + 1]]

\* The divisor taken from the latest retained point.
LatestClose(sampled) ==
    IF sampled # <<>> /\ sampled[Len(sampled)].close # 0 THEN sampled[Len(sampled)].close ELSE 1

\* sampled[0]?.close || 1
startPrice(sampled) ==
    IF sampled # <<>> /\ sampled[1].close # 0 THEN sampled[1].close ELSE 1

\* labels: the month and year of each date; prices: the closes;
\* normalizedPrices: (p.close / startPrice) * 100 as <<numerator, denominator>>.
processPriceData(historicalPrices, maxPoints) ==
    LET sorted == SortByDate(historicalPrices)
        sampled == Sampled(sorted, SampleStep(Len(sorted), maxPoints))
    IN  [labels |-> [i \in 1..Len(sampled) |-> sampled[i].date \div 100],
         prices |-> [i \in 1..Len(sampled) |-> sampled[i].close],
         normalizedPrices |->
             [i \in 1..Len(sampled) |-> <<sampled[i].close * 100, startPrice(sampled)>>]]

MaxPrices == 4

\* Five trading days, the first of them with a close of 0 (what the Yahoo
\* conversion stores for a missing close).
PricePointPool ==
    { PricePoint(20240102, 0), PricePoint(20240103, 15000), PricePoint(20240104, 15750),
      PricePoint(20240105, 14900), PricePoint(20240108, 15000) }

CallProcessPriceData ==
    /\ helper = "processPriceData"
    /\ helperResult = <<>>
    /\ helperResult' = <<processPriceData(helperArgs.historicalPrices, helperArgs.maxPoints)>>
    /\ UNCHANGED <<helper, helperArgs>>
    /\ UNCHANGED <<buildVars, fetchVars, handlerVars, cacheVars, pageVars>>

\* A series of n trading days as the provider sends it, latest first, the
\* closes between $100.00 and $106.00.
LongPriceSeries(n) == [i \in 1..n |-> PricePoint(20300000 - i, 10000 + 100 * (i % 7))]

\* The default maxPoints, and a small one so that sampling happens; and, with
\* the default, series about as long as maxPoints and twice maxPoints.
InitProcessPriceData ==
    /\ helper = "processPriceData"
    /\ \/ helperArgs \in [historicalPrices : ArraysOf(PricePointPool, MaxPrices),
                          maxPoints : {2, DefaultMaxPoints}]
       \/ helperArgs \in [historicalPrices : {LongPriceSeries(n) : n \in {250, 251, 499, 500, 501}},
                          maxPoints : {DefaultMaxPoints}]
    /\ helperResult = <<>>

\* name.length > 15 ? name.substring(0, 15) + '...' : name, on the names of
\* the pools (one of them is longer than 15 characters).
TruncatedLabel(name) ==
    IF name = "International Business Machines" THEN "International B..." ELSE name

RECURSIVE PeersWithRevenue(_, _)
\* The peers pushed to companies: those whose peerRevenues.get(symbol) is a
\* number above 0 (an absent entry reads undefined).
PeersWithRevenue(peersData, peerRevenues) ==
    IF peersData = <<>> THEN <<>>
    ELSE (IF /\ Head(peersData).symbol \in DOMAIN peerRevenues
             /\ peerRevenues[Head(peersData).symbol] > 0
          THEN <<[name |-> Head(peersData).companyName,
                  revenue |-> peerRevenues[Head(peersData).symbol]]>>
          ELSE <<>>)
         \o PeersWithRevenue(Tail(peersData), peerRevenues)

\* Every company ranked, none cut.
RankedCompanies(companies) == SortBy(companies, "revenue", -1)

\* companies.sort((a, b) => b.revenue - a.revenue).slice(0, 6)
TopSix(companies) == Slice(SortBy(companies, "revenue", -1), 6)

RECURSIVE TotalRevenue(_)
\* sorted.reduce((sum, c) => sum + c.revenue, 0)
TotalRevenue(sorted) ==
    IF sorted = <<>> THEN 0 ELSE Head(sorted).revenue + TotalRevenue(Tail(sorted))

\* percentages: (c.revenue / total) * 100 as <<numerator, denominator>>.
calculateMarketShare(companyRevenue, companyName, peersData, peerRevenues) ==
    LET sorted == TopSix(<<[name |-> companyName, revenue |-> companyRevenue]>>
                         \o PeersWithRevenue(peersData, peerRevenues))
        total == TotalRevenue(sorted)
    IN  [labels |-> [i \in 1..Len(sorted) |-> TruncatedLabel(sorted[i].name)],
         values |-> [i \in 1..Len(sorted) |-> sorted[i].revenue],
         percentages |-> [i \in 1..Len(sorted) |-> <<sorted[i].revenue * 100, total>>]]

MaxSharePeers == 7

\* The i-th peer of the pools: its revenue, when known and positive, is one of
\* 300, 600, 900, 1200, 1500, in no order and with ties.
SharePeer(i) ==
    [symbol |-> "P" \o ToString(i),
     companyName |-> IF i = 2 THEN "International Business Machines" ELSE "Peer " \o ToString(i),
     marketCap |-> (((i * 7) % 5) + 1) * 2000]
SharePeerRevenue(i) == (((i * 7) % 5) + 1) * 300

CallCalculateMarketShare ==
    /\ helper = "calculateMarketShare"
    /\ helperResult = <<>>
    /\ helperResult' = <<calculateMarketShare(helperArgs.companyRevenue, helperArgs.companyName,
                                              helperArgs.peersData, helperArgs.peerRevenues)>>
    /\ UNCHANGED <<helper, helperArgs>>
    /\ UNCHANGED <<buildVars, fetchVars, handlerVars, cacheVars, pageVars>>

InitCalculateMarketShare ==
    /\ helper = "calculateMarketShare"
    /\ \E n \in 0..MaxSharePeers, revenue \in {0, 700, 2000} :
          \E known \in SUBSET (1..n) :
             \E zero \in SUBSET known :
                helperArgs = [companyRevenue |-> revenue,
                              companyName |-> "Apple Inc.",
                              peersData |-> [i \in 1..n |-> SharePeer(i)],
                              peerRevenues |->
                                  [s \in {SharePeer(i).symbol : i \in known} |->
                                      LET i == CHOOSE k \in known : SharePeer(k).symbol = s
                                      IN  IF i \in zero THEN 0 ELSE SharePeerRevenue(i)]]
    /\ helperResult = <<>>

\* createMarketShareConfig: the pie's labels, data (the percentages) and
\* colors, [themeColor, ...CHART_COLORS.bars.slice(1)].slice(0, labels.length).
createMarketShareConfig(data, themeColor) ==
    [type |-> "pie", labels |-> data.labels, data |-> data.percentages,
     backgroundColor |->
         Slice(<<themeColor, "#2563eb", "#3d4f5f", "#6b7c8a", "#9ca8b3", "#b8860b">>,
               Len(data.labels))]

\* A threshold of one entity.
HasAnEntity(marketShareData) == Len(marketShareData.values) > 0

\* marketShareData.values.length > 1
HasSeveralEntities(marketShareData) == Len(marketShareData.values) > 1

\* The market-share block of handleFormSubmit: the configuration handed to
\* setMarketShareConfig (<<>>: it is not called).  Amounts are in $10,000 so
\* that peer.marketCap * 0.15 is whole: revenue in $M times 100, market
\* capitalisation in $M times 15.
MarketShareConfigOf(data, companyDataResult) ==
    IF data.charts.marketShare /\ Len(companyDataResult.peersData) > 0
    THEN IF companyDataResult.incomeStatements # <<>>
         THEN LET peersData == companyDataResult.peersData
                  peerRevenues == [s \in {peersData[i].symbol : i \in 1..Len(peersData)} |->
                                      15 * (CHOOSE p \in Range(peersData) : p.symbol = s).marketCap]
                  marketShareData ==
                      calculateMarketShare(100 * companyDataResult.incomeStatements[1].revenue,
                                           companyDataResult.profile.companyName,
                                           peersData, peerRevenues)
              IN  IF HasSeveralEntities(marketShareData)
                  THEN <<createMarketShareConfig(marketShareData, data.themeColor)>>
                  ELSE <<>>
         ELSE <<>>
    ELSE <<>>

\* The market-share block of ChartRenderer.exportCharts: the Pie is mounted,
\* and so marketShareChartRef.current set, only when the chart is enabled and
\* has a configuration.
ExportedMarketShare(enabledCharts, marketShareConfig) ==
    IF enabledCharts.marketShare /\ marketShareConfig # <<>>
    THEN <<[type |-> "marketShare", title |-> "Market Share", dataURL |-> "png:share"]>>
    ELSE <<>>

\* The market-share block of generateAllCharts.
generateAllCharts(marketShareData, themeColor, enabledCharts) ==
    IF enabledCharts.marketShare /\ marketShareData # <<>> /\ HasSeveralEntities(marketShareData[1])
    THEN <<[type |-> "marketShare", title |-> "Market Share", dataURL |-> "png:share"]>>
    ELSE <<>>

\* Peers as getPeerData returns them; the first one has no market
\* capitalisation.
MarketCapPeerPool ==
    { [symbol |-> "P0", companyName |-> "Peer 0", marketCap |-> 0], SharePeer(1), SharePeer(2) }

\* handleFormSubmit builds the configuration, ChartRenderer exports the image
\* and the builder looks the image up for its slide.
CallHandleFormSubmit ==
    /\ helper = "handleFormSubmit"
    /\ helperResult = <<>>
    /\ LET config == MarketShareConfigOf(helperArgs.data, helperArgs.companyDataResult)
           exported == ExportedMarketShare(helperArgs.data.charts, config)
       IN  helperResult' = <<[marketShareConfig |-> config, charts |-> exported,
                              slides |-> [i \in 1..Len(FindChart(exported, "marketShare")) |->
                                             addChartSlide(FindChart(exported, "marketShare")[i])]]>>
    /\ UNCHANGED <<helper, helperArgs>>
    /\ UNCHANGED <<buildVars, fetchVars, handlerVars, cacheVars, pageVars>>

InitHandleFormSubmit ==
    /\ helper = "handleFormSubmit"
    /\ helperArgs \in
          [data : [charts : ChartToggles, themeColor : {"#0f766e"}],
           companyDataResult :
               [profile : {[companyName |-> "Apple Inc."]},
                incomeStatements : {<<>>, <<DatedStatement(20231231, 2023, 1500)>>,
                                    <<DatedStatement(20231231, 2023, 500)>>,
                                    <<DatedStatement(20231231, 2023, 0)>>},
                peersData : ArraysOf(MarketCapPeerPool, Cardinality(MarketCapPeerPool))]]
    /\ helperResult = <<>>

CallGenerateAllCharts ==
    /\ helper = "generateAllCharts"
    /\ helperResult = <<>>
    /\ helperResult' = <<generateAllCharts(helperArgs.marketShareData, helperArgs.themeColor,
                                           helperArgs.enabledCharts)>>
    /\ UNCHANGED <<helper, helperArgs>>
    /\ UNCHANGED <<buildVars, fetchVars, handlerVars, cacheVars, pageVars>>

\* No market-share data, and the data of one subject with up to two peers.
InitGenerateAllCharts ==
    /\ helper = "generateAllCharts"
    /\ helperArgs \in
          [marketShareData :
               {<<>>} \cup
               {<<calculateMarketShare(revenue, "Apple Inc.", [i \in 1..n |-> SharePeer(i)],
                                       [s \in {SharePeer(i).symbol : i \in 1..n} |-> 900])>> :
                    revenue \in {0, 2000}, n \in 0..2},
           themeColor : {"#0f766e"},
           enabledCharts : ChartToggles]
    /\ helperResult = <<>>

----------------------------------------------------------------------------
(* getCachedOrFetch and clearCache on the module's cache Map, with the     *)
(* entries' timestamps.  Date.now() is a clock of whole ticks, a fetch is  *)
(* in flight between the call's `await fetchFn()` and its settling, and    *)
(* several calls run at once.                                              *)

MaxCalls == 2        \* the calls of getCachedOrFetch in one behaviour
MaxClock == 3        \* the clock stops after this many ticks
CACHE_DURATION_MS == 2   \* the time to live, in ticks

CacheKeyPool == {"profile:AAPL", "peers:AAPL"}
PayloadPool == {"payload-a", "payload-b"}
CallIds == 1..MaxCalls

\* { data, timestamp }
CacheEntry(data, timestamp) == [data |-> data, timestamp |-> timestamp]

\* A call that has not been made.
NotCalled ==
    [pc |-> "idle", key |-> "", at |-> 0, seen |-> <<>>, fetches |-> 0,
     fetched |-> <<>>, result |-> <<>>, overlapped |-> {}]

\* `cached && Date.now() - cached.timestamp < CACHE_DURATION_MS`
JustExpiredIsFresh(cached, t) == cached # <<>> /\ t - cached[1].timestamp <= CACHE_DURATION_MS
IsFresh(cached, t) == cached # <<>> /\ t - cached[1].timestamp < CACHE_DURATION_MS

\* cache.set(cacheKey, { data, timestamp: Date.now() })
EntryDropped(entries, key, data, t) == entries
CacheSet(entries, key, data, t) == [entries EXCEPT ![key] = <<CacheEntry(data, t)>>]

\* The calls whose fetch is in flight.
InFlight == {c \in CallIds : calls[c].pc = "awaiting"}

\* getCachedOrFetch(cacheKey, fetchFn) up to its return or its await: a fresh
\* entry is returned, anything else calls fetchFn.  The calls are numbered in
\* the order they are made.
CallGetCachedOrFetch(c, key) ==
    /\ calls[c].pc = "idle"
    /\ \A b \in 1..(c - 1) : calls[b].pc # "idle"
    /\ LET cached == cacheEntries[key]
           seenNow == [calls[c] EXCEPT !.key = key, !.at = clock, !.seen = cached,
                                       !.overlapped = InFlight]
       IN  calls' = [calls EXCEPT ![c] =
                IF IsFresh(cached, clock)
                THEN [seenNow EXCEPT !.pc = "returned", !.result = <<cached[1].data>>]
                ELSE [seenNow EXCEPT !.pc = "awaiting", !.fetches = @ + 1]]
    /\ UNCHANGED <<cacheEntries, clock, clears>>
    /\ UNCHANGED <<buildVars, fetchVars, handlerVars, chartVars, pageVars>>

\* fetchFn resolves: the entry is set at the time of the resolution and the
\* call returns the data.
FetchResolves(c, data) ==
    /\ calls[c].pc = "awaiting"
    /\ cacheEntries' = CacheSet(cacheEntries, calls[c].key, data, clock)
    /\ calls' = [calls EXCEPT ![c].pc = "returned", ![c].fetched = <<data>>,
                              ![c].result = <<data>>]
    /\ UNCHANGED <<clock, clears>>
    /\ UNCHANGED <<buildVars, fetchVars, handlerVars, chartVars, pageVars>>

\* fetchFn rejects: the call rejects before cache.set.
FetchRejects(c) ==
    /\ calls[c].pc = "awaiting"
    /\ calls' = [calls EXCEPT ![c].pc = "rejected"]
    /\ UNCHANGED <<cacheEntries, clock, clears>>
    /\ UNCHANGED <<buildVars, fetchVars, handlerVars, chartVars, pageVars>>

\* clearCache()
clearCache ==
    /\ \E k \in CacheKeyPool : cacheEntries[k] # <<>>
    /\ cacheEntries' = [k \in CacheKeyPool |-> <<>>]
    /\ clears' = clears + 1
    /\ UNCHANGED <<clock, calls>>
    /\ UNCHANGED <<buildVars, fetchVars, handlerVars, chartVars, pageVars>>

\* Time passes.
Tick ==
    /\ clock < MaxClock
    /\ clock' = clock + 1
    /\ UNCHANGED <<cacheEntries, calls, clears>>
    /\ UNCHANGED <<buildVars, fetchVars, handlerVars, chartVars, pageVars>>

\* The Map when the first call is made: empty, or one entry stored at tick 0.
InitCache ==
    /\ \E stored \in {<<>>, <<CacheEntry("payload-stored", 0)>>} :
          cacheEntries = [k \in CacheKeyPool |->
                             IF k = "profile:AAPL" THEN stored ELSE <<>>]
    /\ clock = 0
    /\ calls = [c \in CallIds |-> NotCalled]
    /\ clears = 0

----------------------------------------------------------------------------
(* The page: Home (handleFormSubmit, handleChartsReady, handleReset) and   *)
(* the ChartRenderer it mounts in the preview.  A submission is a run,     *)
(* numbered in the order of the submissions; form data, company data, a    *)
(* chart configuration and an exported chart are identified by the run     *)
(* they come from.  The passive effects of a render run with the state     *)
(* update that causes the render.                                          *)

MaxRuns == 2         \* the submissions in one behaviour
MaxThrows == 1       \* the exports whose canvas.toDataURL throws

RunIds == 1..MaxRuns
ExportOrder == <<"pricePerformance", "revenueGrowth", "marketShare">>
ChartTypeSet == Range(ExportOrder)

\* What a run submits and what the provider has for it: the chart toggles
\* of the form, and the charts whose data yields a configuration.
RunInput(toggles, available) == [toggles |-> toggles, available |-> available]
RunPool ==
    { RunInput(ChartTypeSet, ChartTypeSet),
      RunInput({}, ChartTypeSet),
      RunInput({"pricePerformance"}, {"revenueGrowth"}),
      RunInput({"pricePerformance", "marketShare"}, {"pricePerformance"}) }

NoConfigs == [t \in ChartTypeSet |-> <<>>]

\* formData.charts of the form data on display (none: no chart enabled).
enabledCharts(fd) == IF fd = <<>> THEN {} ELSE runInputs[fd[1]].toggles

\* hasCharts of the trigger effect.
hasCharts(fd, cfgs) == \E t \in ChartTypeSet : t \in enabledCharts(fd) /\ cfgs[t] # <<>>

\* The second effect's test: no chart is enabled.
NoChartEnabled(fd) == enabledCharts(fd) = {}

\* `appState === 'preview' && companyData && formData`
PreviewRendered(state, cd, fd) == state = "preview" /\ cd # <<>> /\ fd # <<>>

\* A ChartRenderer instance.
Mounted(m, isExporting, exportComplete, timer) ==
    <<[mount |-> m, isExporting |-> isExporting, exportComplete |-> exportComplete,
       timer |-> timer]>>

\* The ChartRenderer after Home renders with these props: unmounted outside
\* the preview, mounted anew (the trigger effect arms the timer), or kept,
\* its trigger effect run again when a configuration changed.
RendererAfter(state, cd, fd, cfgs) ==
    IF ~PreviewRendered(state, cd, fd) THEN <<>>
    ELSE IF renderer = <<>> THEN Mounted(mounts + 1, FALSE, FALSE, hasCharts(fd, cfgs))
    ELSE IF cfgs # configs
         THEN <<[renderer[1] EXCEPT !.timer = hasCharts(fd, cfgs)
                                              /\ ~renderer[1].exportComplete]>>
         ELSE renderer

\* The results exportCharts collects: one per enabled chart whose canvas
\* is on the page, in the exporter's order.
RECURSIVE CapturedFrom(_, _, _)
CapturedFrom(fd, cfgs, i) ==
    IF i > Len(ExportOrder) THEN <<>>
    ELSE (IF ExportOrder[i] \in enabledCharts(fd) /\ cfgs[ExportOrder[i]] # <<>>
          THEN <<[type |-> ExportOrder[i], run |-> cfgs[ExportOrder[i]][1]]>>
          ELSE <<>>) \o CapturedFrom(fd, cfgs, i + 1)
Captured(fd, cfgs) == CapturedFrom(fd, cfgs, 1)

\* Nothing has been submitted.
PageConstructed ==
    /\ appState = "form"
    /\ progressStep = "idle"
    /\ homeFormData = <<>>
    /\ homeCompanyData = <<>>
    /\ homeCharts = <<>>
    /\ configs = NoConfigs
    /\ submitted = 0
    /\ fetchOf = [r \in RunIds |-> "idle"]
    /\ renderer = <<>>
    /\ exports = {}
    /\ mounts = 0
    /\ readyCalls = [m \in RunIds |-> 0]
    /\ throws = 0

InitPage ==
    /\ runInputs \in [RunIds -> RunPool]
    /\ PageConstructed

\* handleFormSubmit up to `await fetch(...)`; the form is on the page only in
\* the form state.
handleFormSubmit ==
    /\ appState = "form"
    /\ submitted < MaxRuns
    /\ submitted' = submitted + 1
    /\ homeFormData' = <<submitted + 1>>
    /\ appState' = "loading"
    /\ homeCharts' = <<>>
    /\ progressStep' = "fetching-profile"
    /\ fetchOf' = [fetchOf EXCEPT ![submitted + 1] = "awaiting-response"]
    /\ renderer' = <<>>
    /\ UNCHANGED <<homeCompanyData, configs, runInputs, exports, mounts, readyCalls,
                   throws>>
    /\ UNCHANGED <<buildVars, fetchVars, handlerVars, chartVars, cacheVars>>

\* The response of a run arrives with response.ok.
ResponseArrives(run) ==
    /\ fetchOf[run] = "awaiting-response"
    /\ fetchOf' = [fetchOf EXCEPT ![run] = "awaiting-json"]
    /\ progressStep' = "fetching-financials"
    /\ UNCHANGED <<appState, homeFormData, homeCompanyData, homeCharts, configs,
                   runInputs, submitted, renderer, exports, mounts, readyCalls, throws>>
    /\ UNCHANGED <<buildVars, fetchVars, handlerVars, chartVars, cacheVars>>

\* The fetch of a run rejects or answers with an error status: the catch block.
ResponseFails(run) ==
    /\ fetchOf[run] = "awaiting-response"
    /\ fetchOf' = [fetchOf EXCEPT ![run] = "done"]
    /\ progressStep' = "error"
    /\ appState' = "error"
    /\ renderer' = <<>>
    /\ UNCHANGED <<homeFormData, homeCompanyData, homeCharts, configs, runInputs,
                   submitted, exports, mounts, readyCalls, throws>>
    /\ UNCHANGED <<buildVars, fetchVars, handlerVars, chartVars, cacheVars>>

\* handleFormSubmit after `await response.json()`: the company data and the
\* configurations of the run's enabled charts that have data are set, the
\* page moves to the preview, and a ChartRenderer mounted with no chart
\* enabled reports at once.
CompanyDataArrives(run) ==
    /\ fetchOf[run] = "awaiting-json"
    /\ fetchOf' = [fetchOf EXCEPT ![run] = "done"]
    /\ LET input == runInputs[run]
           cfgs == [t \in ChartTypeSet |->
                       IF t \in input.toggles /\ t \in input.available
                       THEN <<run>> ELSE configs[t]]
           after == RendererAfter("preview", <<run>>, homeFormData, cfgs)
           mountedNow == renderer = <<>> /\ after # <<>>
           readyAtMount == mountedNow /\ NoChartEnabled(homeFormData)
       IN  /\ homeCompanyData' = <<run>>
           /\ configs' = cfgs
           /\ appState' = "preview"
           /\ renderer' = after
           /\ mounts' = IF mountedNow THEN mounts + 1 ELSE mounts
           /\ progressStep' = IF readyAtMount THEN "complete" ELSE "generating-pptx"
           /\ homeCharts' = IF readyAtMount THEN <<>> ELSE homeCharts
           /\ readyCalls' = IF readyAtMount
                            THEN [readyCalls EXCEPT ![mounts + 1] = @ + 1]
                            ELSE readyCalls
    /\ UNCHANGED <<homeFormData, runInputs, submitted, exports, throws>>
    /\ UNCHANGED <<buildVars, fetchVars, handlerVars, chartVars, cacheVars>>

\* handleReset; the button is on the page outside the form state.
handleReset ==
    /\ appState # "form"
    /\ appState' = "form"
    /\ progressStep' = "idle"
    /\ homeCompanyData' = <<>>
    /\ homeFormData' = <<>>
    /\ homeCharts' = <<>>
    /\ configs' = NoConfigs
    /\ renderer' = <<>>
    /\ UNCHANGED <<runInputs, submitted, fetchOf, exports, mounts, readyCalls, throws>>
    /\ UNCHANGED <<buildVars, fetchVars, handlerVars, chartVars, cacheVars>>

\* The 1000 ms timer of the trigger effect fires exportCharts: it returns at
\* once when an export runs or has completed, else it sets isExporting and
\* waits 500 ms; the render that follows arms the timer again.
TimerFires ==
    /\ renderer # <<>>
    /\ renderer[1].timer
    /\ IF renderer[1].isExporting \/ renderer[1].exportComplete
       THEN /\ renderer' = <<[renderer[1] EXCEPT !.timer = FALSE]>>
            /\ UNCHANGED exports
       ELSE /\ renderer' = <<[renderer[1] EXCEPT !.isExporting = TRUE,
                                  !.timer = hasCharts(homeFormData, configs)]>>
            /\ exports' = exports \cup {renderer[1].mount}
    /\ UNCHANGED <<appState, progressStep, homeFormData, homeCompanyData, homeCharts,
                   configs, runInputs, submitted, fetchOf, mounts, readyCalls, throws>>
    /\ UNCHANGED <<buildVars, fetchVars, handlerVars, chartVars, cacheVars>>

\* handleChartsReady: setCharts(exportedCharts)
handleChartsReady(exportedCharts) == exportedCharts

\* The instance after a caught export: isExporting is reset, exportComplete
\* is not set, and the trigger effect arms the timer again.
AfterCaughtExport(instance) ==
    [instance EXCEPT !.isExporting = FALSE,
                     !.timer = hasCharts(homeFormData, configs)]

\* The instance after an export that captured every canvas.
AfterExport(instance) ==
    [instance EXCEPT !.isExporting = FALSE, !.exportComplete = TRUE, !.timer = FALSE]

\* exportCharts of the instance of mount m after its 500 ms: the canvases
\* are captured (the refs of an unmounted instance are null), and the result,
\* or [] when a capture threw, goes to onChartsReady.
ExportSettles(m, thrown) ==
    /\ m \in exports
    /\ exports' = exports \ {m}
    /\ LET live == renderer # <<>> /\ renderer[1].mount = m
           captured == IF live THEN Captured(homeFormData, configs) ELSE <<>>
       IN  /\ thrown => (captured # <<>> /\ throws < MaxThrows)
           /\ homeCharts' = handleChartsReady(IF thrown THEN <<>> ELSE captured)
           /\ progressStep' = "complete"
           /\ readyCalls' = [readyCalls EXCEPT ![m] = @ + 1]
           /\ throws' = IF thrown THEN throws + 1 ELSE throws
           /\ renderer' = IF ~live THEN renderer
                          ELSE IF thrown THEN <<AfterCaughtExport(renderer[1])>>
                          ELSE <<AfterExport(renderer[1])>>
    /\ UNCHANGED <<appState, homeFormData, homeCompanyData, configs, runInputs,
                   submitted, fetchOf, mounts>>
    /\ UNCHANGED <<buildVars, fetchVars, handlerVars, chartVars, cacheVars>>

----------------------------------------------------------------------------
(* Specifications                                                          *)

InitBuild ==
    /\ InitBuildOrder \/ InitBuildFault \/ InitBuildTexts \/ InitBuildContent
       \/ InitBuildPrices
    /\ FetchNotRunning
    /\ HandlerIdle
    /\ ChartsIdle
    /\ CacheIdle
    /\ PageIdle

NextBuild == BuildFixedSlide \/ BuildChartSlide \/ WriteBlob

\* generatePitchDeck(companyData, formData, charts) on every input of the pools.
SpecBuild == InitBuild /\ [][NextBuild]_vars

InitFetchAll == InitFetch /\ BuildIdle /\ HandlerIdle /\ ChartsIdle /\ CacheIdle /\ PageIdle

NextFetch ==
    \/ CallFetchAll
    \/ ProfileFromCache
    \/ ProfileResponse
    \/ StartWaveOne
    \/ \E f \in Range(WaveOne) : WaveOneResponse(f)
    \/ WaveOneDone
    \/ \E i \in 1..Len(peerState) : PeerSettled(i)
    \/ WaveTwoDone

\* fetchAllCompanyData(Subject) against every answer of the provider.
SpecFetch == InitFetchAll /\ [][NextFetch]_vars

NextHandler ==
    \/ FallbackHandlerEntry
    \/ FallbackHandlerPrimarySettled
    \/ FallbackHandlerSecondary
    \/ FmpHandlerEntry
    \/ FmpHandlerSettled
    \/ NextFetch

\* One request to each handler, against every answer of the two providers.
SpecHandler == InitHandler /\ [][NextHandler]_vars

InitCharts ==
    /\ \/ InitCalculateRevenueGrowth
       \/ InitProcessPriceData
       \/ InitCalculateMarketShare
       \/ InitHandleFormSubmit
       \/ InitGenerateAllCharts
    /\ BuildIdle
    /\ FetchNotRunning
    /\ HandlerIdle
    /\ CacheIdle
    /\ PageIdle

NextCharts ==
    \/ CallCalculateRevenueGrowth
    \/ CallProcessPriceData
    \/ CallCalculateMarketShare
    \/ CallHandleFormSubmit
    \/ CallGenerateAllCharts

\* One call of a chart helper on every input of the pools.
SpecCharts == InitCharts /\ [][NextCharts]_vars

InitCacheCalls ==
    InitCache /\ BuildIdle /\ FetchNotRunning /\ HandlerIdle /\ ChartsIdle /\ PageIdle

NextCache ==
    \/ \E c \in CallIds, key \in CacheKeyPool : CallGetCachedOrFetch(c, key)
    \/ \E c \in CallIds, data \in PayloadPool : FetchResolves(c, data)
    \/ \E c \in CallIds : FetchRejects(c)
    \/ clearCache
    \/ Tick

\* Calls of getCachedOrFetch and of clearCache in every interleaving.
SpecCache == InitCacheCalls /\ [][NextCache]_vars

InitPageOpen ==
    InitPage /\ BuildIdle /\ FetchNotRunning /\ HandlerIdle /\ ChartsIdle /\ CacheIdle

NextPage ==
    \/ handleFormSubmit
    \/ \E run \in RunIds : ResponseArrives(run)
    \/ \E run \in RunIds : ResponseFails(run)
    \/ \E run \in RunIds : CompanyDataArrives(run)
    \/ handleReset
    \/ TimerFires
    \/ \E m \in RunIds, thrown \in BOOLEAN : ExportSettles(m, thrown)

\* The page under every interleaving of the user's clicks, the fetches'
\* settling, the timers and the exports.
SpecPage == InitPageOpen /\ [][NextPage]_vars

\* The same, where what is scheduled happens: a fetch settles, a timer that
\* stays armed fires, an export that waits its 500 ms goes on.  The user's
\* clicks are left free.
SpecPageFair ==
    /\ SpecPage
    /\ WF_vars(\E run \in RunIds : ResponseArrives(run) \/ ResponseFails(run))
    /\ WF_vars(\E run \in RunIds : CompanyDataArrives(run))
    /\ WF_vars(TimerFires)
    /\ WF_vars(\E m \in RunIds, thrown \in BOOLEAN : ExportSettles(m, thrown))

----------------------------------------------------------------------------
(* Properties of PitchDeckBuilder.build, checked under SpecBuild           *)

RECURSIVE NamesOfKind(_, _)
\* The names of the slides of one kind, in deck order.
NamesOfKind(slides, kind) ==
    IF slides = <<>> THEN <<>>
    ELSE (IF Head(slides).kind = kind THEN <<Head(slides).name>> ELSE <<>>)
         \o NamesOfKind(Tail(slides), kind)

IsPrefix(s, t) == Len(s) <= Len(t) /\ s = SubSeq(t, 1, Len(s))

\* The kinds of chart among the rasterized charts handed to the builder.
RasterizedKinds == {charts[i].type : i \in 1..Len(charts)}

\* The position of a name in the deck (0: not there).
PositionOf(slides, name) ==
    IF \E i \in 1..Len(slides) : slides[i].name = name
    THEN CHOOSE i \in 1..Len(slides) : slides[i].name = name
    ELSE 0

CanonicalFixedSlides ==
    <<"Cover", "TOC", "InvestmentSummary", "CompanyOverview", "IndustryOverview",
      "KeyMetrics", "FinancialSummary", "PeersComps", "GrowthDrivers",
      "InvestmentThesis", "Valuation", "RisksAndMitigants", "Appendix">>

\* C1: whatever the company data, the form data and the charts, the fixed
\* slides are added in the canonical order Cover, TOC, InvestmentSummary,
\* CompanyOverview, IndustryOverview, KeyMetrics, FinancialSummary, PeersComps,
\* GrowthDrivers, InvestmentThesis, Valuation, RisksAndMitigants, Appendix: at
\* every point of the build the fixed slides added so far are a prefix of that
\* order, and once the loop is over all thirteen are there, none skipped.
C1_FixedSlidesInCanonicalOrder ==
    /\ IsPrefix(NamesOfKind(deck, "fixed"), CanonicalFixedSlides)
    /\ pc \in {"charts", "write", "done"} =>
          NamesOfKind(deck, "fixed") = CanonicalFixedSlides
    /\ pc = "done" => NamesOfKind(blob[1], "fixed") = CanonicalFixedSlides

\* C1 witness: a finished deck built from company data with no statement and
\* no ratio bundle holds the thirteen fixed slides.
C1_Witness ==
    /\ pc = "done"
    /\ companyData.incomeStatements = <<>>
    /\ companyData.ratiosTTM = <<>>
    /\ NamesOfKind(blob[1], "fixed") = CanonicalFixedSlides

\* C2: every chart slide of the deck comes after the Financial Summary slide
\* and before the Peer Comparison slide.
C2_ChartSlidesBetweenFinancialsAndPeers ==
    \A i \in 1..Len(deck) :
        deck[i].kind = "chart" =>
            /\ \E j \in 1..(i - 1) : deck[j].name = "FinancialSummary"
            /\ ~ \E j \in 1..(i - 1) : deck[j].name = "PeersComps"

ChartRank(type) ==
    CASE type = "revenueGrowth" -> 1
      [] type = "pricePerformance" -> 2
      [] type = "marketShare" -> 3

\* C3: whatever the order of the charts array, the chart slides of the deck
\* are in the relative order revenueGrowth, pricePerformance, marketShare.
C3_ChartSlidesInFixedOrder ==
    \A i, j \in 1..Len(deck) :
        (i < j /\ deck[i].kind = "chart" /\ deck[j].kind = "chart")
            => ChartRank(deck[i].name) <= ChartRank(deck[j].name)

\* C3 witness: the exporter's array (price, revenue, market share) has been
\* built into a finished deck whose chart slides are revenue, price, share.
C3_Witness ==
    /\ pc = "done"
    /\ charts = ExporterCharts
    /\ NamesOfKind(blob[1], "chart") = <<"revenueGrowth", "pricePerformance", "marketShare">>

\* C4: in a finished deck there is a chart slide of kind k exactly when
\* formData.charts[k] is enabled and a rasterized image of kind k is in charts.
C4_ChartSlidesAreEnabledAndRasterized ==
    pc = "done" =>
        \A k \in Range(ChartLookupOrder) :
            (k \in Range(NamesOfKind(blob[1], "chart")))
                <=> (formData.charts[k] /\ k \in RasterizedKinds)

\* C5: a successful build yields 13 + k slides, k the number of chart kinds
\* among the rasterized charts: 16 with all three, 15 with revenue and price
\* only.
C5_SlideCount ==
    pc = "done" =>
        /\ Len(blob[1]) = 13 + Cardinality(RasterizedKinds)
        /\ RasterizedKinds = {"revenueGrowth", "pricePerformance", "marketShare"}
              => Len(blob[1]) = 16
        /\ RasterizedKinds = {"revenueGrowth", "pricePerformance"}
              => Len(blob[1]) = 15

\* C5 witness: a finished deck of 15 slides, the market-share chart missing.
C5_Witness ==
    /\ pc = "done"
    /\ RasterizedKinds = {"revenueGrowth", "pricePerformance"}
    /\ Len(blob[1]) = 15

\* C6: when constructing a slide throws, be it a fixed slide or a chart slide,
\* build rejects with an error that names that slide, no later slide has been
\* constructed and no blob is returned.
C6_ErrorNamesTheFailingSlide ==
    (pc = "failed" /\ throwsAt # "write") =>
        /\ buildError # <<>>
        /\ throwsAt \in Range(buildError[1])
        /\ blob = <<>>
        /\ \A i \in 1..Len(deck) : deck[i].name # throwsAt

\* C7: with no income statement (and no library failure) the build does not
\* fail, the Key Metrics and Financial Summary slides hold no table and hold
\* their data-unavailable notice, and the finished deck holds both slides.
C7_EmptyStatementsGiveNotices ==
    (companyData.incomeStatements = <<>> /\ throwsAt = "none" /\ pc # "idle") =>
        /\ pc # "failed"
        /\ \A i \in 1..Len(deck) :
              /\ deck[i].name = "KeyMetrics" =>
                    /\ deck[i].tables = <<>>
                    /\ KeyMetricsNotice \in Range(deck[i].texts)
              /\ deck[i].name = "FinancialSummary" =>
                    /\ deck[i].tables = <<>>
                    /\ FinancialSummaryNotice \in Range(deck[i].texts)
        /\ pc = "done" =>
              {"KeyMetrics", "FinancialSummary"} \subseteq Range(NamesOfKind(blob[1], "fixed"))

\* C7 witness: a finished deck for company data with no income statement,
\* holding both slides.
C7_Witness ==
    /\ pc = "done"
    /\ companyData.incomeStatements = <<>>
    /\ PositionOf(blob[1], "KeyMetrics") > 0
    /\ PositionOf(blob[1], "FinancialSummary") > 0
    /\ blob[1][PositionOf(blob[1], "KeyMetrics")].tables = <<>>

\* The slide of that name in the finished deck.
BlobSlide(name) == blob[1][PositionOf(blob[1], name)]

\* The placeholder of a user-editable slide is shown exactly when the free
\* text is empty, and a non-empty text shows on the slide (its first line).
PlaceholderIffEmpty(slide, text, placeholder) ==
    /\ (text = <<"">>) <=> (Range(placeholder) \subseteq Range(slide.texts))
    /\ (text # <<"">>) => (text[1] \in Range(slide.texts))

\* C8: on each of the thesis, valuation and risks slides the placeholder
\* template is substituted exactly when the corresponding free text is empty,
\* and otherwise the slide shows the user's text.
C8_PlaceholderExactlyWhenEmpty ==
    pc = "done" =>
        /\ PlaceholderIffEmpty(BlobSlide("InvestmentThesis"), formData.investmentThesis,
                               <<ThesisPlaceholder(companyData, formData)>>)
        /\ PlaceholderIffEmpty(BlobSlide("Valuation"), formData.valuation,
                               ValuationTemplate)
        /\ PlaceholderIffEmpty(BlobSlide("RisksAndMitigants"), formData.risksAndMitigants,
                               RisksTemplate)

\* The statement fields behind the data rows of the Key Metrics table (rows 2
\* to 8) and of the Financial Summary table (rows 2 to 6).
KeyMetricsRowFields ==
    <<"revenue", "grossProfit", "ebitda", "netIncome", "grossProfitRatio",
      "netIncomeRatio", "epsdiluted">>
FinancialRowFields ==
    <<"revenue", "grossProfit", "ebitda", "operatingIncome", "netIncome">>

\* The cells of a table that derive from an absent statement field read "N/A".
AbsentCellsReadNA(table, columns, rowFields) ==
    \A r \in 1..Len(rowFields), j \in 1..Len(columns) :
        IsAbsent(columns[j][rowFields[r]]) => table[r + 1][j + 1] = "N/A"

\* C9: every slide cell derived from an absent numeric field reads "N/A": the
\* cells of the Key Metrics and Financial Summary tables, the TTM column of the
\* Key Metrics table and the Investment Summary's revenue and margins.
C9_AbsentFieldsReadNA ==
    \A i \in 1..Len(deck) :
        LET income == companyData.incomeStatements
        IN  /\ (deck[i].name = "KeyMetrics" /\ deck[i].tables # <<>>) =>
                  /\ AbsentCellsReadNA(deck[i].tables[1],
                                       Slice(SortDescending(FilterHasYear(income)), 4),
                                       KeyMetricsRowFields)
                  /\ (HasRatios(companyData)
                      /\ IsAbsent(RatioField(companyData, "grossProfitMarginTTM")))
                        => deck[i].tables[1][6][Len(deck[i].tables[1][6])] = "N/A"
                  /\ (HasRatios(companyData)
                      /\ IsAbsent(RatioField(companyData, "netProfitMarginTTM")))
                        => deck[i].tables[1][7][Len(deck[i].tables[1][7])] = "N/A"
            /\ (deck[i].name = "FinancialSummary" /\ deck[i].tables # <<>>) =>
                  AbsentCellsReadNA(deck[i].tables[1],
                                    SortAscending(FilterHasYear(income)),
                                    FinancialRowFields)
            /\ deck[i].name = "InvestmentSummary" =>
                  /\ (income # <<>> /\ IsAbsent(income[1].revenue))
                        => deck[i].fields[1][2] = "N/A"
                  /\ (income # <<>> /\ IsAbsent(income[1].ebitda))
                        => deck[i].fields[3][2] = "N/A"
                  /\ IsAbsent(RatioField(companyData, "grossProfitMarginTTM"))
                        => deck[i].fields[2][2] = "N/A"
                  /\ IsAbsent(RatioField(companyData, "netProfitMarginTTM"))
                        => deck[i].fields[4][2] = "N/A"

----------------------------------------------------------------------------
(* Properties of fetchAllCompanyData, checked under SpecFetch              *)

ProfileRequest == Request("profile", Subject)

\* C10: the profile lookup comes before every other provider request: a
\* request other than the subject's profile request is issued only once the
\* profile has resolved to a profile, and the profile request, when one is
\* issued (the profile is not served from the cache), is the first request.
\* When the profile resolves to nothing the call rejects with NOT_FOUND and no
\* other request has been issued.
C10_ProfileBeforeAnyOtherFetch ==
    /\ \A i \in 1..Len(requests) :
          /\ requests[i] # ProfileRequest => profile # <<>>
          /\ requests[i] = ProfileRequest => i = 1
    /\ (cache["profile"] = <<"empty">> /\ fpc \notin {"start", "profile-cached"}) =>
          /\ fpc = "rejected"
          /\ fetchError = "NOT_FOUND"
          /\ Range(requests) \subseteq {ProfileRequest}
    /\ fetchError = "NOT_FOUND" => Range(requests) \subseteq {ProfileRequest}

\* C10 witness: the provider answered the profile request with no profile and
\* the call rejected with NOT_FOUND, the profile request being the only one.
C10_Witness ==
    /\ fpc = "rejected"
    /\ fetchError = "NOT_FOUND"
    /\ requests = <<ProfileRequest>>

\* The answers that leave a wave-one fetch without a failure.
SoftAnswers == {"", "200", "403"}

\* C11: when the provider answers any subset of the wave-one requests with a
\* 403 and the others with a 200, fetchAllCompanyData does not reject; in the
\* CompanyData it resolves with, each category answered 403 holds its default
\* ([] or null, for the peers the empty list), each category answered 200
\* holds the fetched value, and no error is recorded.
C11_ForbiddenDegradesToDefault ==
    /\ (apiKeySet /\ profile # <<>> /\ \A f \in Range(WaveOne) : waveAnswer[f] \in SoftAnswers)
          => fpc # "rejected"
    /\ fpc = "resolved" =>
          /\ fetchError = ""
          /\ \A f \in Range(WaveOne) :
                /\ waveAnswer[f] = "403" =>
                      IF f = "stock-peers"
                      THEN fetchResult[1].peers = <<>> /\ fetchResult[1].peersData = <<>>
                      ELSE fetchResult[1].categories[f] = "default"
                /\ waveAnswer[f] = "200" => fetchResult[1].categories[f] = "value"

\* C11 witness: the call resolved although the statements, the ratios and the
\* peers were answered 403, the key metrics answered 200 holding their value.
C11_Witness ==
    /\ fpc = "resolved"
    /\ waveAnswer["income-statement"] = "403"
    /\ waveAnswer["ratios-ttm"] = "403"
    /\ waveAnswer["stock-peers"] = "403"
    /\ waveAnswer["key-metrics"] = "200"
    /\ fetchResult[1].categories["income-statement"] = "default"
    /\ fetchResult[1].categories["key-metrics"] = "value"

\* C12: a hard failure of any provider call of fetchAllCompanyData rejects the
\* call with that error: a wave-one request answered with a hard failure
\* leaves the call rejected with the matching code, and the call never resolves
\* after a peer lookup of wave two had a hard failure caught and turned into a
\* dropped record.
C12_HardFailuresPropagate ==
    /\ \A f \in Range(WaveOne) :
          waveAnswer[f] \in HardFailures =>
              /\ fpc = "rejected"
              /\ fetchError = fmpRequestErrorCode(waveAnswer[f], AllowEmpty(f))
    /\ fpc = "resolved" => \A i \in 1..Len(peerState) : peerState[i] # "swallowed"

----------------------------------------------------------------------------
(* Properties of the company-data handlers, checked under SpecHandler      *)

\* The primary provider failed with a rate limit on its first call.
RateLimitedOnFirstCall == fetchError = "RATE_LIMIT" /\ requests = <<ProfileRequest>>

\* C13: in the aggregated endpoint (the handler with the fallback), when the
\* primary provider fails with a rate limit on its first call the secondary
\* provider is asked, and when it has a quote the request ends with a 200
\* carrying the secondary provider's CompanyData (a profile, no statement, no
\* peer) and no error.
C13_RateLimitFallsBackToSecondary ==
    (handlerKind = "fallback" /\ hpc = "responded" /\ RateLimitedOnFirstCall) =>
        /\ yahooQuote # ""
        /\ yahooQuote = "found" =>
              /\ response[1].status = 200
              /\ response[1].error = ""
              /\ response[1].source = "yahoo"
              /\ response[1].body.profile # <<>>
              /\ response[1].body.categories["income-statement"] = "default"
              /\ response[1].body.peers = <<>>

\* C13 witness: a request answered 200 from Yahoo Finance after the profile
\* request, the only one issued, was answered 429.
C13_Witness ==
    /\ handlerKind = "fallback"
    /\ hpc = "responded"
    /\ RateLimitedOnFirstCall
    /\ yahooQuote = "found"
    /\ response[1].status = 200
    /\ response[1].source = "yahoo"

\* C14: the secondary provider is called only after the primary aggregation
\* failed because the provider was unavailable (RATE_LIMIT, NETWORK_ERROR or
\* TIMEOUT), not after NOT_FOUND or any other error.
C14_SecondaryOnlyWhenPrimaryUnavailable ==
    (apiKeySet /\ yahooCalls # <<>>) =>
        fetchError \in {"RATE_LIMIT", "NETWORK_ERROR", "TIMEOUT"}

\* C15: without an API key a well-formed request to either handler is answered
\* with the configuration error, and neither provider has been called.
C15_NoApiKeyIsAConfigurationError ==
    (~apiKeySet /\ hpc = "responded" /\ RequestRejection = <<>>) =>
        /\ response[1].status = 500
        /\ response[1].error = "API key not configured"
        /\ requests = <<>>
        /\ yahooCalls = <<>>

\* The symbol resolved to no profile on any source the handler asks.
NoProfileOnAnySource ==
    /\ fetchError = "NOT_FOUND"
    /\ handlerKind = "fallback" => yahooQuote = "undefined"

\* C16: a request for a symbol that resolves to no profile on any source is
\* answered 404 'Company not found'.
C16_NotFoundIsAnswered404 ==
    (hpc = "responded" /\ NoProfileOnAnySource) =>
        /\ response[1].status = 404
        /\ response[1].error = "Company not found"

----------------------------------------------------------------------------
(* Properties of the chart helpers, checked under SpecCharts               *)

\* The statements of the series that calculateRevenueGrowth was called on.
GrowthSeries == Range(helperArgs.incomeStatements)

\* The statements of the series dated before r.
DatedBefore(r) == {s \in GrowthSeries : s.date < r.date}

\* The statement of the series that comes right before r in date order.
PreviousStatement(r) ==
    CHOOSE s \in DatedBefore(r) : \A t \in DatedBefore(r) : t.date <= s.date

\* The fiscal years that have a growth entry: those of the statements that
\* are not the earliest and follow a statement with positive revenue.
YearsWithGrowth ==
    {r.calendarYear : r \in {s \in GrowthSeries :
                               DatedBefore(s) # {} /\ PreviousStatement(s).revenue > 0}}

GrowthReturned == helper = "calculateRevenueGrowth" /\ helperResult # <<>>

\* C17 as stated: for every statement series S with at least one record, in
\* any order, calculateRevenueGrowth(S) returns exactly |S| - 1 entries, in
\* ascending fiscal-year order, the first one for the second-earliest year.
C17_GrowthHasOneEntryPerLaterYear ==
    (GrowthReturned /\ Len(helperArgs.incomeStatements) >= 1) =>
        LET S == helperArgs.incomeStatements
            growth == helperResult[1]
        IN  /\ Len(growth) = Len(S) - 1
            /\ \A i, j \in 1..Len(growth) : i < j => growth[i].year < growth[j].year
            /\ Len(S) >= 2 =>
                  /\ growth # <<>>
                  /\ Cardinality({s \in GrowthSeries : s.calendarYear < growth[1].year}) = 1

\* C17 amended: calculateRevenueGrowth(S) returns one entry for each statement
\* of S that directly follows, in date order, a statement with positive
\* revenue, in ascending order; so it returns at most |S| - 1 entries, and
\* exactly |S| - 1, the first one for the second-earliest year, when every
\* statement but the latest has positive revenue.
C17_GrowthHasOneEntryPerPositivePriorYear ==
    GrowthReturned =>
        LET S == helperArgs.incomeStatements
            growth == helperResult[1]
        IN  /\ {growth[i].year : i \in 1..Len(growth)} = YearsWithGrowth
            /\ Len(growth) = Cardinality(YearsWithGrowth)
            /\ \A i, j \in 1..Len(growth) : i < j => growth[i].year < growth[j].year
            /\ (Len(S) >= 1 /\ \A s \in GrowthSeries :
                                  (\E t \in GrowthSeries : t.date > s.date) => s.revenue > 0) =>
                  /\ Len(growth) = Len(S) - 1
                  /\ Len(S) >= 2 =>
                        Cardinality({s \in GrowthSeries : s.calendarYear < growth[1].year}) = 1

\* C17 witness: a series given latest first whose middle statement has no
\* revenue, answered with the single entry of the middle year.
C17_Witness ==
    /\ GrowthReturned
    /\ Len(helperArgs.incomeStatements) = 3
    /\ helperArgs.incomeStatements[1].date > helperArgs.incomeStatements[2].date
    /\ Len(helperResult[1]) = 1
    /\ helperResult[1][1].year = 2022

PricesReturned == helper = "processPriceData" /\ helperResult # <<>>

\* The close of the earliest point of the series that processPriceData was
\* called on (the first one given, among those of one date).
EarliestClose ==
    LET P == helperArgs.historicalPrices
        first == CHOOSE i \in 1..Len(P) :
                     \A j \in 1..Len(P) : P[i].date < P[j].date \/ (P[i].date = P[j].date /\ i <= j)
    IN  P[first].close

\* The unrounded quotient <<numerator, denominator>> is exactly the number n.
QuotientIs(q, n) == q[1] = n * q[2]

ShareReturned == helper = "calculateMarketShare" /\ helperResult # <<>>

\* The entities of a market-share call: 0 is the subject, i is the i-th peer
\* when its revenue is known and positive; and the revenue of each.
ShareEntities ==
    {0} \cup {i \in 1..Len(helperArgs.peersData) :
                 /\ helperArgs.peersData[i].symbol \in DOMAIN helperArgs.peerRevenues
                 /\ helperArgs.peerRevenues[helperArgs.peersData[i].symbol] > 0}
EntityRevenue(i) ==
    IF i = 0 THEN helperArgs.companyRevenue
    ELSE helperArgs.peerRevenues[helperArgs.peersData[i].symbol]

\* v is the k-th largest revenue among the entities.
IsKthLargest(v, k) ==
    /\ Cardinality({i \in ShareEntities : EntityRevenue(i) > v}) < k
    /\ Cardinality({i \in ShareEntities : EntityRevenue(i) >= v}) >= k

RECURSIVE SumOfNumerators(_)
SumOfNumerators(quotients) ==
    IF quotients = <<>> THEN 0 ELSE Head(quotients)[1] + SumOfNumerators(Tail(quotients))

\* C19: for every subject revenue and every peer set with at least one peer
\* of known positive revenue, calculateMarketShare keeps at most the six
\* largest entities, ranked by descending revenue, and the percentages, each
\* a share of the total of the entities kept, sum to 100.
C19_TopSixSharesSumTo100 ==
    (ShareReturned /\ Cardinality(ShareEntities) >= 2) =>
        LET share == helperResult[1]
            n == Len(share.values)
        IN  /\ n = (IF Cardinality(ShareEntities) < 6 THEN Cardinality(ShareEntities) ELSE 6)
            /\ Len(share.labels) = n /\ Len(share.percentages) = n
            /\ \A k \in 1..n : IsKthLargest(share.values[k], k)
            /\ \A k \in 1..n :
                  /\ share.percentages[k][2] > 0
                  /\ share.percentages[k][2] = share.percentages[1][2]
                  /\ share.percentages[k][1] = 100 * share.values[k]
            /\ SumOfNumerators(share.percentages) = 100 * share.percentages[1][2]

\* C19 witness: a subject and seven peers of known positive revenue, the
\* subject among the six kept and two entities cut.
C19_Witness ==
    /\ ShareReturned
    /\ Cardinality(ShareEntities) = 8
    /\ helperArgs.companyRevenue = 700
    /\ Len(helperResult[1].values) = 6
    /\ "Apple Inc." \in Range(helperResult[1].labels)
    /\ "International B..." \in Range(helperResult[1].labels)
    /\ SumOfNumerators(helperResult[1].percentages) = 100 * helperResult[1].percentages[1][2]

SubmitReturned == helper = "handleFormSubmit" /\ helperResult # <<>>

\* The entities of a submission's market-share data: the subject and the
\* peers whose estimated revenue (a share of the market capitalisation) is
\* positive.
SubmittedEntities ==
    1 + Cardinality({p \in Range(helperArgs.companyDataResult.peersData) : p.marketCap > 0})

----------------------------------------------------------------------------
(* Further properties of fetchAllCompanyData, checked under SpecFetch      *)

\* The requests issued so far for a symbol other than the subject's.
PeerRequestsIssued == {i \in 1..Len(requests) : requests[i][2] # Subject}

\* C24: peer enrichment starts only once the peers fetch and every other
\* wave-one fetch have resolved; it is skipped when the resolved peer list is
\* empty; and it issues provider requests only for symbols among the first
\* five of that list.
C24_PeerEnrichmentIsSecondWave ==
    /\ (fpc = "wave-two" \/ PeerRequestsIssued # {}) =>
          /\ \A f \in Range(WaveOne) : wave[f] \in {"value", "default"}
          /\ peerList # <<>>
    /\ \A i \in PeerRequestsIssued :
          \E k \in 1..Len(peerList) : k <= 5 /\ requests[i][2] = peerList[k]
    /\ (fpc = "resolved" /\ peerList = <<>>) =>
          /\ PeerRequestsIssued = {}
          /\ peerState = <<>>
          /\ fetchResult[1].peersData = <<>>

\* C24 witness: wave one resolved to a list of six peers and the second wave
\* asked the profile and the ratios of the first five only.
C24_Witness ==
    /\ fpc = "wave-two"
    /\ Len(peerList) = 6
    /\ Cardinality(PeerRequestsIssued) = 10
    /\ Len(peerState) = 5

----------------------------------------------------------------------------
(* Further properties of the chart helpers, checked under SpecCharts       *)

\* The points of the series that processPriceData was called on, by rank of
\* date, earliest first (dates are distinct in every series of the pools).
PointsByDate ==
    LET P == helperArgs.historicalPrices
        rank == <<>> \o [i \in 1..Len(P) |->
                   1 + Cardinality({j \in 1..Len(P) : P[j].date < P[i].date})]
    IN  <<>> \o [r \in 1..Len(P) |-> P[CHOOSE i \in 1..Len(P) : rank[i] = r]]

\* C25: for every price series of any length and the default maxPoints = 250,
\* processPriceData returns at most 250 points, taken at a fixed stride from
\* the series sorted ascending, the earliest point always among them.
C25_AtMostMaxPointsAtFixedStride ==
    (PricesReturned /\ helperArgs.maxPoints = DefaultMaxPoints) =>
        LET labels == helperResult[1].labels
            prices == helperResult[1].prices
            byDate == PointsByDate
        IN  /\ Len(prices) <= DefaultMaxPoints
            /\ Len(labels) = Len(prices)
            /\ helperArgs.historicalPrices # <<>> =>
                  /\ prices # <<>>
                  /\ prices[1] = EarliestClose
                  /\ \E stride \in 1..Len(helperArgs.historicalPrices) :
                        \A k \in 1..Len(prices) :
                           /\ (k - 1) * stride + 1 <= Len(helperArgs.historicalPrices)
                           /\ prices[k] = byDate[(k - 1) * stride + 1].close
                           /\ labels[k] = byDate[(k - 1) * stride + 1].date \div 100

\* CHART_COLORS.bars, the fixed palette.
ChartBarColors == {"#1a2744", "#2563eb", "#3d4f5f", "#6b7c8a", "#9ca8b3", "#b8860b"}

\* C28: in the market-share pie built from calculateMarketShare's output the
\* theme color is the color of the subject company's own slice, whatever the
\* subject's rank by revenue among the entities kept, and every peer's slice
\* takes a color of the fixed palette.
C28_ThemeColorOnSubjectSlice ==
    (SubmitReturned /\ helperResult[1].marketShareConfig # <<>>) =>
        LET config == helperResult[1].marketShareConfig[1]
            subject == TruncatedLabel(helperArgs.companyDataResult.profile.companyName)
        IN  /\ Len(config.backgroundColor) = Len(config.labels)
            /\ \A k \in 1..Len(config.labels) :
                  IF config.labels[k] = subject
                  THEN config.backgroundColor[k] = helperArgs.data.themeColor
                  ELSE config.backgroundColor[k] \in ChartBarColors

----------------------------------------------------------------------------
(* Further properties of PitchDeckBuilder.build, checked under SpecBuild   *)

\* The statements that carry a fiscal year, and the one of greatest year.
DatedIncome == {s \in Range(companyData.incomeStatements) : s.calendarYear # <<>>}
LatestStatement == CHOOSE s \in DatedIncome : \A t \in DatedIncome : YearOf(t) <= YearOf(s)

\* C26: each latest-year figure of the Investment Summary slide, its
\* `Revenue (LTM)` and its EBITDA margin, is taken from the statement of
\* greatest fiscal year, for every ordering of the provider's statement array.
C26_LatestFiguresFromGreatestYear ==
    \A i \in 1..Len(deck) :
        (deck[i].name = "InvestmentSummary" /\ DatedIncome # {}) =>
            /\ deck[i].fields[1][2] = safeText(SummaryRevenue(<<LatestStatement>>))
            /\ deck[i].fields[3][2] = safeText(SummaryEbitdaMargin(<<LatestStatement>>))

\* The upside cell of a slide of the finished deck, and the two markers.
UpsideCell(name) == BlobSlide(name).fields[Len(BlobSlide(name).fields)][2]
UpsideMarkers == {"N/A", "TBD"}
UpsideSlides == {"Cover", "InvestmentSummary", "Valuation"}
BothPricesPositive == currentPrice(companyData) > 0 /\ targetPrice(formData) > 0

\* C27: on every slide that shows an upside (Cover, Investment Summary,
\* Valuation) a percentage is shown exactly when the current price and the
\* target price are both positive, equal prices included; otherwise the
\* slide shows its not-available marker.
C27_UpsideShownIffBothPricesPositive ==
    pc = "done" =>
        \A name \in UpsideSlides :
            /\ BothPricesPositive <=> UpsideCell(name) \notin UpsideMarkers
            /\ ~BothPricesPositive => UpsideCell(name) \in UpsideMarkers

----------------------------------------------------------------------------
(* Properties of getCachedOrFetch, checked under SpecCache                 *)

\* The calls made so far, and whether the entry a call found was younger
\* than the time to live when the call was made.
CallsMade == {c \in CallIds : calls[c].pc # "idle"}
SawYoungEntry(c) ==
    /\ calls[c].seen # <<>>
    /\ calls[c].at - calls[c].seen[1].timestamp < CACHE_DURATION_MS

\* What a call did on what it found.
HitIffYoungEntry ==
    \A c \in CallsMade :
        /\ calls[c].fetches = 0 <=> SawYoungEntry(c)
        /\ SawYoungEntry(c) => calls[c].result = <<calls[c].seen[1].data>>
        /\ ~SawYoungEntry(c) => calls[c].fetches = 1

\* What the settling of a fetch, and any step, does to the Map.
MapChangesOnlyAsStated ==
    /\ \A c \in CallIds :
          /\ (calls[c].pc = "awaiting" /\ calls'[c].pc = "returned") =>
                /\ calls'[c].fetches = 1
                /\ cacheEntries' = [cacheEntries EXCEPT ![calls[c].key] =
                                       <<[data |-> calls'[c].result[1],
                                          timestamp |-> clock]>>]
          /\ (calls[c].pc = "awaiting" /\ calls'[c].pc = "rejected") =>
                cacheEntries' = cacheEntries
    /\ \A k \in CacheKeyPool :
          (cacheEntries[k] # <<>> /\ cacheEntries'[k] = <<>>) => clears' = clears + 1

\* C22: getCachedOrFetch returns the stored value without calling the fetch
\* function exactly when the key holds an entry whose age is strictly less
\* than the time to live; otherwise it calls the fetch function exactly once
\* and on success overwrites the entry with the fetched value and the current
\* time.  A failed fetch leaves the Map unchanged, and only clearCache
\* removes an entry.
C22_HitIffFreshElseOneFetch == []HitIffYoungEntry /\ [][MapChangesOnlyAsStated]_vars

\* One call was served an entry younger than the time to live, and another
\* found the entry at exactly that age, fetched and overwrote it.
C22_Witness ==
    \E c, e \in CallIds :
        /\ calls[c].pc = "returned" /\ calls[c].fetches = 0
        /\ calls[e].pc = "returned" /\ calls[e].fetches = 1
        /\ calls[e].seen # <<>>
        /\ calls[e].at - calls[e].seen[1].timestamp = CACHE_DURATION_MS
        /\ cacheEntries[calls[e].key] # <<>>
        /\ cacheEntries[calls[e].key][1].data = calls[e].fetched[1]
        /\ cacheEntries[calls[e].key][1].timestamp >= calls[e].at

\* The calls for a key that found no fresh entry, and those whose fetch
\* returned a value.
Missed(k) == {c \in CallsMade : calls[c].key = k /\ ~SawYoungEntry(c)}
Fetched(k) == {c \in Missed(k) : calls[c].pc = "returned"}

\* C23: in every interleaving of calls for one key that found no fresh entry,
\* each call performs its own fetch, each caller receives the value its
\* fetch returned, and once the calls have completed the Map holds one entry
\* for the key, whose value is the result of one of those fetches.
C23_ConcurrentMissesEachFetch ==
    \A k \in CacheKeyPool :
        /\ \A c \in Missed(k) : calls[c].fetches = 1
        /\ \A c \in Fetched(k) :
              calls[c].fetched # <<>> /\ calls[c].result = calls[c].fetched
        /\ ( /\ clears = 0
             /\ Fetched(k) # {}
             /\ \A c \in Missed(k) : calls[c].pc \in {"returned", "rejected"} ) =>
                /\ cacheEntries[k] # <<>>
                /\ cacheEntries[k][1].data \in {calls[c].fetched[1] : c \in Fetched(k)}

\* Two calls for one key were in flight together, their fetches returned
\* different values, and the Map holds one of them.
C23_Witness ==
    \E c, e \in CallIds :
        /\ c \in calls[e].overlapped
        /\ calls[c].key = calls[e].key
        /\ calls[c].pc = "returned" /\ calls[e].pc = "returned"
        /\ calls[c].fetched # calls[e].fetched
        /\ clears = 0
        /\ cacheEntries[calls[c].key] # <<>>
        /\ cacheEntries[calls[c].key][1].data = calls[c].fetched[1]

----------------------------------------------------------------------------
(* Properties of the page, checked under SpecPage and SpecPageFair         *)

\* C21: once the page is in the preview after a successful fetch, for every
\* combination of chart toggles and data, charts that are enabled but have
\* no data included, the chart stage eventually calls onChartsReady and
\* progressStep becomes 'complete': the page does not stay at
\* 'generating-pptx' forever (unless the user leaves the preview).
C21_ChartStageEventuallyCompletes ==
    (appState = "preview" /\ progressStep = "generating-pptx")
        ~> (progressStep = "complete" \/ appState # "preview")

\* C29: one ChartRenderer instance calls onChartsReady at most once, whatever
\* the interleaving of its timer, its settle delay and the renders, and also
\* when a capture throws.
C29_OnChartsReadyAtMostOnce ==
    \A m \in DOMAIN readyCalls : readyCalls[m] <= 1

\* What the export of a run delivers for the run's own data: one chart per
\* enabled chart that has data, drawn from the run's configuration.
RunConfigs(run) ==
    [t \in ChartTypeSet |-> IF t \in runInputs[run].available THEN <<run>> ELSE <<>>]
ExportOfRun(run) == Captured(<<run>>, RunConfigs(run))

\* C30: whenever the preview is shown with progressStep 'complete', the
\* company data and the form data on display are the current run's and
\* charts is what the current run's export delivers for them (nothing, when
\* its capture threw): no callback of an earlier run has changed them.
C30_ChartsAreTheCurrentRunsExport ==
    (appState = "preview" /\ progressStep = "complete") =>
        /\ homeFormData = <<submitted>>
        /\ homeCompanyData = <<submitted>>
        /\ \/ homeCharts = ExportOfRun(submitted)
           \/ throws > 0 /\ homeCharts = <<>>

=============================================================================
